---- MODULE Spec2Model ----
(***************************************************************************)
(* State-machine model of the MEXC signal bot: HybridMonitor               *)
(* (run_hybrid_optimized.py), RSICalculator (services/analysis/rsi.py),    *)
(* RateLimiter (services/mexc/monitor.py) and MexcWSClient                 *)
(* (services/mexc/ws_client.py).                                           *)
(*                                                                         *)
(* Time is the value of time.time() in whole seconds for HybridMonitor     *)
(* (clock) and in milliseconds for RateLimiter (rl_clock).  Prices and     *)
(* candle closes are integers; RSI values are exact rationals <<n, d>>     *)
(* where the code uses float64.                                            *)
(***************************************************************************)
EXTENDS Integers, Sequences, FiniteSets, TLC

\* ---------------------------------------------------------------------
\* Bounds of the model
\* ---------------------------------------------------------------------
NumWorkers == 2
MaxTicks == 2
MaxQueue == 2
MaxElapsed == 1800
VerifyElapsed == 600
NumCallers == 3
MaxRlElapsed == 1500
NumChunks == 2
MaxFailures == 8
LiveFailures == 2
MaxErrors == 2
NumStopCalls == 2
CooldownElapsed == 450
RescanElapsed == 300
MaxRetries == 3
MaxSymbols == 4
MaxChunkSize == 3
MaxPrice == 4
MaxLen == 4
MaxPeriod == 3

\* ---------------------------------------------------------------------
\* Program constants
\* ---------------------------------------------------------------------
PRICE_CHANGE_THRESHOLD == 8
RSI_OVERBOUGHT == 70
RSI_OVERSOLD == 30
KLINES_CACHE_TTL == 20
cooldown == 300
max_buffer == 1200
WINDOW == 900
MIN_CANDLES == 30
RESCAN_INTERVAL == 60
maxsize == 0
requests_per_second == 2
DefaultRetries == 3
RECONNECT_DELAY == 5
MAX_RECONNECT_DELAY == 60

\* ---------------------------------------------------------------------
\* Exact rationals <<n, d>>, d > 0, in lowest terms
\* ---------------------------------------------------------------------
RECURSIVE GCD(_, _)
GCD(a, b) ==
    IF b = 0 THEN a ELSE CHOOSE g \in {GCD(b, r) : r \in {a % b}} : TRUE

Rat(n, d) == IF n = 0 THEN <<0, 1>>
             ELSE LET g == GCD(n, d) IN <<n \div g, d \div g>>

RatLess(x, y) == x[1] * y[2] < y[1] * x[2]

RatInt(k) == <<k, 1>>

\* ---------------------------------------------------------------------
\* RSICalculator
\* ---------------------------------------------------------------------
\* deltas = np.insert(np.diff(prices), 0, 0); index i is 1-based here
Delta(prices, i) == IF i = 1 THEN 0 ELSE prices[i] - prices[i - 1]
Gain(prices, i) == IF Delta(prices, i) > 0 THEN Delta(prices, i) ELSE 0
Loss(prices, i) == IF Delta(prices, i) < 0 THEN 0 - Delta(prices, i) ELSE 0

RECURSIVE SumGains(_, _, _)
SumGains(prices, lo, hi) ==
    IF lo > hi THEN 0 ELSE Gain(prices, lo) + SumGains(prices, lo + 1, hi)

RECURSIVE SumLosses(_, _, _)
SumLosses(prices, lo, hi) ==
    IF lo > hi THEN 0 ELSE Loss(prices, lo) + SumLosses(prices, lo + 1, hi)

\* avg = (avg * (period - 1) + x) / period
Smooth(avg, x, period) ==
    Rat(avg[1] * (period - 1) + x * avg[2], avg[2] * period)

\* variant: 0.0 whenever avg_loss == 0
RsiOf_ZeroWithoutLoss(avg_gain, avg_loss) ==
    IF avg_loss[1] = 0
    THEN RatInt(0)
    ELSE Rat(100 * avg_gain[1] * avg_loss[2],
             avg_gain[1] * avg_loss[2] + avg_loss[1] * avg_gain[2])

\* 100 if avg_loss == 0 and avg_gain > 0, 0 if both are 0,
\* else 100 - 100 / (1 + avg_gain / avg_loss)
RsiOf(avg_gain, avg_loss) ==
    IF avg_loss[1] = 0
    THEN (IF avg_gain[1] > 0 THEN RatInt(100) ELSE RatInt(0))
    ELSE Rat(100 * avg_gain[1] * avg_loss[2],
             avg_gain[1] * avg_loss[2] + avg_loss[1] * avg_gain[2])

\* the loop "for i in range(period + 1, len(deltas))"; g and l are
\* avg_gain and avg_loss after pass i, bound as values
RECURSIVE Wilder(_, _, _, _, _, _)
Wilder(prices, period, i, avg_gain, avg_loss, acc) ==
    IF i > Len(prices) THEN acc
    ELSE LET Rest(g, l) ==
                 Wilder(prices, period, i + 1, g, l, Append(acc, RsiOf(g, l)))
         IN CHOOSE rsi \in
                {Rest(g, l) :
                     g \in {Smooth(avg_gain, Gain(prices, i), period)},
                     l \in {Smooth(avg_loss, Loss(prices, i), period)}} : TRUE

Zeros(n) == [i \in 1..n |-> RatInt(0)]

calculate(prices, period) ==
    IF Len(prices) < 2 THEN Zeros(Len(prices))
    ELSE IF Len(prices) <= period THEN Zeros(Len(prices))
    ELSE LET avg_gain == Rat(SumGains(prices, 2, period + 1), period)
             avg_loss == Rat(SumLosses(prices, 2, period + 1), period)
         IN Wilder(prices, period, period + 2, avg_gain, avg_loss,
                   Append(Zeros(period), RsiOf(avg_gain, avg_loss)))

get_last_rsi(prices, period) ==
    LET Last(values) ==
            IF Len(values) > 0 THEN values[Len(values)] ELSE RatInt(0)
    IN CHOOSE rsi \in
           {Last(values) :
                values \in {calculate(p, period) : p \in {prices}}} : TRUE

\* ---------------------------------------------------------------------
\* Inputs of the model
\* ---------------------------------------------------------------------
SymbolList == <<"X">>
Symbols == {SymbolList[i] : i \in DOMAIN SymbolList}
Upper(s) == IF s = "x" THEN "X" ELSE s

\* the raw price field of a ticker message: a number, absent, or not numeric
Num(v) == [kind |-> "num", val |-> v]
Absent == [kind |-> "none", val |-> 0]
NotNumeric == [kind |-> "text", val |-> 0]

\* ticker messages: the symbol field s and the price field c
Messages ==
    {[s |-> "x", c |-> Num(100)], [s |-> "X", c |-> Num(109)],
     [s |-> "", c |-> Num(100)], [s |-> "X", c |-> Num(0)],
     [s |-> "X", c |-> Absent], [s |-> "x", c |-> NotNumeric]}

Periods == {14, 30}
DefaultPeriod == 14
ClockStep == 2 * cooldown
ClockSteps == {ClockStep}
StartTime == 2 * WINDOW
Workers == 1..NumWorkers
Intervals == {"1h", "15m", "5m"}
Callers == 1..NumCallers
Chunks == 1..NumChunks
\* the calls of HybridMonitor.stop: 0 is the call in the "finally" of
\* start, the others are made by whoever else holds the monitor
StopCalls == 0..NumStopCalls
\* self.min_interval = 1.0 / requests_per_second, in milliseconds
min_interval == 1000 \div requests_per_second
RlStart == 2 * min_interval
RlSteps == {min_interval \div 5, min_interval \div 2}

\* candle series: MIN_CANDLES candles, flat at 100 except for the last closes
Candles(n, tail) ==
    [i \in 1..n |-> [close |-> IF i <= n - Len(tail) THEN 100
                               ELSE tail[i - (n - Len(tail))]]]
SeriesUp == Candles(MIN_CANDLES, <<101, 102>>)
SeriesDown == Candles(MIN_CANDLES, <<99, 98>>)
SeriesNeutral == Candles(MIN_CANDLES, <<94, 100>>)
SeriesAt70 == Candles(MIN_CANDLES, <<94, 107>>)
SeriesAt30 == Candles(MIN_CANDLES, <<106, 93>>)
SeriesShort == Candles(MIN_CANDLES - 1, <<101, 102>>)
\* candles of a payload without usable prices: every close is 0
SeriesZeroClose == [i \in 1..MIN_CANDLES |-> [close |-> 0]]

ListOutcome(d) == [kind |-> "list", data |-> d]
ErrorOutcome == [kind |-> "error", data |-> <<>>]

\* what client.get_klines can answer to a 1h or 15m request: every kind of
\* answer (AllOutcomes), and the answers Spec draws from (KlinesOutcomes)
FailedOutcomes ==
    {ErrorOutcome, ListOutcome(<<>>), ListOutcome(SeriesShort)}
ExtremeOutcomes == {ListOutcome(SeriesUp), ListOutcome(SeriesDown)}
InsideOutcomes ==
    {ListOutcome(SeriesNeutral), ListOutcome(SeriesAt70),
     ListOutcome(SeriesAt30)}
AllOutcomes == ExtremeOutcomes \cup FailedOutcomes \cup InsideOutcomes
KlinesOutcomes ==
    {ErrorOutcome, ListOutcome(SeriesNeutral), ListOutcome(SeriesUp)}
ChartReady == ListOutcome(Candles(1, <<100>>))
ChartOutcomes == {ErrorOutcome, ListOutcome(<<>>), ChartReady}

\* ---------------------------------------------------------------------
\* State
\* ---------------------------------------------------------------------
VARIABLES
    RSI_PERIOD,        \* config.settings.RSI_PERIOD
    clock,             \* time.time()
    prices,            \* HybridMonitor.prices
    timestamps,        \* HybridMonitor.timestamps
    last_signal_time,  \* HybridMonitor.last_signal_time, 0 where absent
    verify_queue,      \* HybridMonitor.verify_queue
    ticks_received,    \* HybridMonitor.ticks_received
    signals_found,     \* HybridMonitor.signals_found
    errors_count,      \* HybridMonitor.errors_count
    klines_cache,      \* HybridMonitor._klines_cache
    workers,           \* position and locals of each _verify_worker
    rescan_wake,       \* time at which per_minute_rescan's sleep ends
    dropped,           \* history: parity of the number of ticks that
                       \* handle_ws_message returned on without appending
    aborted,           \* history: per symbol, the time of the latest
                       \* verification ended by a failed candle fetch,
                       \* the parity of their number, and whether the
                       \* fetch gave no data at all
    rl_clock,          \* time.time() seen by RateLimiter, milliseconds
    last_request_time, \* RateLimiter.last_request_time
    requests_made,     \* RateLimiter.requests_made
    lock,              \* RateLimiter.lock: the caller holding it, or 0
    callers,           \* position and locals of each caller of wait()
    grants,            \* history: times at which permits were granted
    is_running,        \* MexcWSClient.is_running
    connect_all_pc,    \* position of the connect_all task
    chunks,            \* position and locals of each _connect_chunk task
    stopped,           \* history: MexcWSClient.stop() has been called
    received,          \* history: parity of the number of messages that
                       \* _process_messages has handled
    monitor_running,   \* HybridMonitor.is_running
    shutdown_event,    \* HybridMonitor.shutdown_event is set
    set_pending,       \* loop.call_soon_threadsafe(shutdown_event.set) is
                       \* scheduled and has not run
    start_pc,          \* position of HybridMonitor.start
    stop_pcs,          \* position of each call of HybridMonitor.stop
    stats_pc,          \* position of the stats_loop task
    rescan_pc,         \* position of the per_minute_rescan task
    final_sent,        \* history: number of times stop() called
                       \* telegram.send_message with the final status
    signalled,         \* history: signal_handler has run
    request,           \* position and locals of a call of
                       \* MexcClient._make_request, with its history
    args,              \* arguments of a call of a function
    returned           \* what the call returned

monitorVars == <<RSI_PERIOD, clock, prices, timestamps, last_signal_time,
                 verify_queue, ticks_received, signals_found, klines_cache,
                 workers, rescan_wake, aborted, errors_count,
                 dropped>>
limiterVars == <<rl_clock, last_request_time, requests_made, lock, callers,
                 grants>>
wsVars == <<is_running, connect_all_pc, chunks, stopped, received>>
runVars == <<monitor_running, shutdown_event, set_pending, start_pc,
             stop_pcs, stats_pc, rescan_pc, final_sent, signalled>>
restVars == <<request>>
callVars == <<args, returned>>
vars == <<monitorVars, limiterVars, wsVars, runVars, restVars, callVars>>

\* ---------------------------------------------------------------------
\* Initial state: HybridMonitor.__init__, RateLimiter.__init__
\* ---------------------------------------------------------------------
NoEntry == [ts |-> 0, data |-> <<>>]

IdleCaller == [pc |-> "idle", now |-> 0, wake |-> 0]

IdleWorker == [pc |-> "get", symbol |-> "", price_change |-> RatInt(0),
               now |-> 0, prices_1h |-> <<>>, rsi_1h |-> RatInt(0),
               prices_15m |-> <<>>, rsi_15m |-> RatInt(0),
               candles_5m |-> <<>>]

NeverAborted == [at |-> 0, odd |-> FALSE, nodata |-> FALSE]

InitMonitor ==
    /\ RSI_PERIOD = DefaultPeriod
    /\ clock = StartTime
    /\ prices = [s \in Symbols |-> <<>>]
    /\ timestamps = [s \in Symbols |-> <<>>]
    /\ last_signal_time = [s \in Symbols |-> 0]
    /\ verify_queue = <<>>
    /\ ticks_received = 0
    /\ signals_found = 0
    /\ errors_count = 0
    /\ dropped = FALSE
    /\ klines_cache = [k \in Symbols \X Intervals |-> NoEntry]
    /\ workers = [w \in Workers |-> IdleWorker]
    /\ rescan_wake = StartTime + RESCAN_INTERVAL
    /\ aborted = [s \in Symbols |-> NeverAborted]

InitLimiter ==
    /\ rl_clock = RlStart
    /\ last_request_time = 0
    /\ requests_made = 0
    /\ lock = 0
    /\ callers = [c \in Callers |-> IdleCaller]
    /\ grants = <<>>

\* a _connect_chunk task that does not exist yet
NoChunk == [pc |-> "none", reconnect_delay |-> RatInt(0), sleeps |-> 0,
            keep_alive |-> "none", pong_missed |-> FALSE]

InitWs ==
    /\ is_running = FALSE
    /\ connect_all_pc = "none"
    /\ chunks = [c \in Chunks |-> NoChunk]
    /\ stopped = FALSE
    /\ received = FALSE

\* HybridMonitor.start has set is_running; it is creating its tasks
\* ("starting") or it awaits shutdown_event.wait() ("waiting")
InitRunAt(pc) ==
    /\ monitor_running = TRUE
    /\ shutdown_event = FALSE
    /\ set_pending = FALSE
    /\ start_pc = pc
    /\ stop_pcs = [k \in StopCalls |-> "idle"]
    /\ stats_pc = "running"
    /\ rescan_pc = "running"
    /\ final_sent = 0
    /\ signalled = FALSE

InitRun == InitRunAt("starting")

\* no call of MexcClient._make_request has begun; MexcClient(timeout=30)
\* leaves max_retries at its default
NoRequest == [pc |-> "idle", max_retries |-> DefaultRetries,
              retry_count |-> 0, attempts |-> 0, waits |-> <<>>,
              result |-> "none"]

InitRest == request = NoRequest

InitCall == args = <<>> /\ returned = <<>>

Init ==
    InitMonitor /\ InitLimiter /\ InitWs /\ InitRun /\ InitRest /\ InitCall

\* ---------------------------------------------------------------------
\* Cooldown and candidate filter
\* ---------------------------------------------------------------------
\* variant: a window of 0 seconds
\* variant: ... <= self.cooldown
InCooldown_Inclusive(symbol, now) ==
    now - last_signal_time[symbol] <= cooldown

InCooldown_ZeroWindow(symbol, now) == now - last_signal_time[symbol] < 0

\* time.time() - self.last_signal_time.get(symbol, 0) < self.cooldown
InCooldown(symbol, now) == now - last_signal_time[symbol] < cooldown

\* the loop "for i, t in enumerate(ts): if t >= cutoff_time: ... break":
\* the index at which it breaks, 0 when it runs to the end
FirstAtOrAfter(ts, cutoff_time) ==
    LET hits == {i \in DOMAIN ts : ts[i] >= cutoff_time}
    IN IF hits = {} THEN 0
       ELSE CHOOSE i \in hits : \A j \in hits : i <= j

\* variant: the oldest entry inside the window serves as reference when
\* no entry is older than the window
OldPrice_OldestInWindow(pr, ts, now) ==
    LET i == FirstAtOrAfter(ts, now - WINDOW)
    IN IF i > 1 THEN <<pr[i - 1]>> ELSE IF i = 1 THEN <<pr[1]>> ELSE <<>>

\* <<p>> when old_price is set to p, <<>> when it stays None
OldPrice(pr, ts, now) ==
    LET i == FirstAtOrAfter(ts, now - WINDOW)
    IN IF i > 1 THEN <<pr[i - 1]>> ELSE <<>>

Abs(x) == IF x < 0 THEN 0 - x ELSE x

\* abs((new_price - old_price) / old_price * 100)
PriceChange(new_price, old_price) ==
    Rat(Abs(new_price - old_price) * 100, old_price)

\* variant: the threshold itself does not trigger
ReachesThreshold_Strict(price_change) ==
    RatLess(RatInt(PRICE_CHANGE_THRESHOLD), price_change)

\* price_change >= PRICE_CHANGE_THRESHOLD
ReachesThreshold(price_change) ==
    ~RatLess(price_change, RatInt(PRICE_CHANGE_THRESHOLD))

\* the check shared by _maybe_enqueue_price_alert and per_minute_rescan
Evaluate(pr, ts, now) ==
    IF Len(pr) < 2 THEN [triggered |-> FALSE, change |-> RatInt(0)]
    ELSE LET old == OldPrice(pr, ts, now)
         IN IF old = <<>> \/ old[1] <= 0
            THEN [triggered |-> FALSE, change |-> RatInt(0)]
            ELSE LET c == PriceChange(pr[Len(pr)], old[1])
                 IN [triggered |-> ReachesThreshold(c), change |-> c]

\* variant: asyncio.Queue(maxsize=1)
full_One(q) == Len(q) >= 1

\* asyncio.Queue(): maxsize 0, on which Queue.full() is never true
full(q) == IF maxsize <= 0 THEN FALSE ELSE Len(q) >= maxsize

Item(symbol, price_change, now) ==
    [symbol |-> symbol, price_change |-> price_change, enqueued_at |-> now]
\* the sentinel None that start() puts on the queue, as an item of no symbol
None == Item("", RatInt(0), 0)

\* ---------------------------------------------------------------------
\* handle_ws_message and _maybe_enqueue_price_alert
\* ---------------------------------------------------------------------
\* variant: pop(0) outside the "if"
Trim_Always(buf) == Tail(buf)

\* if len(self.prices[symbol]) > self.max_buffer: pop(0); both lists have
\* the same length, so the one test serves both
Trim(buf) == IF Len(buf) > max_buffer THEN Tail(buf) ELSE buf

\* variant: no "price <= 0" return
ValidTick_NoSignCheck(symbol, price_raw) ==
    price_raw.kind = "num" /\ symbol # ""

ValidTick(symbol, price_raw) ==
    price_raw.kind = "num" /\ symbol # "" /\ price_raw.val > 0

\* the body of handle_ws_message on a process that counts at most
\* max_ticks ticks
OnTick(s, price_raw, max_ticks) ==
    LET symbol == Upper(s) IN
    IF ~ValidTick(symbol, price_raw)
    THEN /\ dropped' = ~dropped
         /\ UNCHANGED <<errors_count, RSI_PERIOD, clock, prices, timestamps,
                        last_signal_time, verify_queue, ticks_received,
                        signals_found, klines_cache, workers, rescan_wake,
                        aborted>>
    ELSE
      LET pr == Trim(Append(prices[symbol], price_raw.val))
          ts == Trim(Append(timestamps[symbol], clock))
          e == Evaluate(pr, ts, clock)
      IN /\ ticks_received < max_ticks
         /\ prices' = [prices EXCEPT ![symbol] = pr]
         /\ timestamps' = [timestamps EXCEPT ![symbol] = ts]
         /\ ticks_received' = ticks_received + 1
         /\ IF e.triggered /\ ~InCooldown(symbol, clock)
            THEN /\ ~full(verify_queue)
                 /\ Len(verify_queue) < MaxQueue
                 /\ verify_queue' =
                        Append(verify_queue, Item(symbol, e.change, clock))
            ELSE UNCHANGED verify_queue
         /\ UNCHANGED <<dropped, errors_count, RSI_PERIOD, clock,
                        last_signal_time, signals_found, klines_cache, workers,
                        rescan_wake, aborted>>

\* handle_ws_message called with a message, whoever the caller
HandleTick(s, price_raw, max_ticks) ==
    /\ OnTick(s, price_raw, max_ticks)
    /\ UNCHANGED <<limiterVars, wsVars, runVars, restVars, callVars>>

handle_ws_message(s, price_raw) == HandleTick(s, price_raw, MaxTicks)

\* ---------------------------------------------------------------------
\* per_minute_rescan: one pass of the loop body after asyncio.sleep(60)
\* ---------------------------------------------------------------------
RECURSIVE RescanFrom(_, _)
RescanFrom(i, q) ==
    IF i > Len(SymbolList) THEN q
    ELSE LET symbol == SymbolList[i]
             e == Evaluate(prices[symbol], timestamps[symbol], clock)
         IN IF e.triggered /\ ~InCooldown(symbol, clock)
            THEN RescanFrom(i + 1, Append(q, Item(symbol, e.change, clock)))
            ELSE RescanFrom(i + 1, q)

per_minute_rescan ==
    /\ clock >= rescan_wake
    /\ Len(RescanFrom(1, verify_queue)) <= MaxQueue
    /\ \A n \in Len(verify_queue)..(Len(RescanFrom(1, verify_queue)) - 1) :
           ~full(SubSeq(RescanFrom(1, verify_queue), 1, n))
    /\ verify_queue' = RescanFrom(1, verify_queue)
    /\ rescan_wake' = clock + RESCAN_INTERVAL
    /\ UNCHANGED <<dropped, errors_count, RSI_PERIOD, clock, prices,
                   timestamps, last_signal_time, ticks_received, signals_found,
                   klines_cache, workers, aborted>>
    /\ UNCHANGED <<limiterVars, wsVars, runVars, restVars, callVars>>

\* passage of time
AdvanceClock(d, horizon) ==
    /\ clock + d <= StartTime + horizon
    /\ clock' = clock + d
    /\ UNCHANGED <<dropped, errors_count, RSI_PERIOD, prices, timestamps,
                   last_signal_time, verify_queue, ticks_received,
                   signals_found, klines_cache, workers, rescan_wake, aborted>>
    /\ UNCHANGED <<limiterVars, wsVars, runVars, restVars, callVars>>

\* ---------------------------------------------------------------------
\* verify_with_rsi, _get_klines_cached and send_signal.  The operators take
\* and return the part of the state a verification writes between two
\* suspension points: st = [workers, last_signal_time, signals_found];
\* loc is the record of the worker's locals.
\* ---------------------------------------------------------------------
Current == [workers |-> workers, last_signal_time |-> last_signal_time,
            signals_found |-> signals_found]

\* cached and now - ts < KLINES_CACHE_TTL
CacheHit(symbol, interval) ==
    LET cached == klines_cache[<<symbol, interval>>]
    IN Len(cached.data) > 0 /\ clock - cached.ts < KLINES_CACHE_TTL

\* if data: self._klines_cache[key] = (now, data)
CacheStore(symbol, interval, now, data) ==
    IF Len(data) > 0
    THEN [klines_cache EXCEPT ![<<symbol, interval>>] =
              [ts |-> now, data |-> data]]
    ELSE klines_cache

\* what the caller of get_klines receives: None and [] are both <<>>
Received(outcome) == IF outcome.kind = "error" THEN <<>> ELSE outcome.data

\* [float(k.get("close", 0)) for k in klines]
ClosePrices(klines) ==
    [i \in DOMAIN klines |->
        IF "close" \in DOMAIN klines[i] THEN klines[i].close ELSE 0]

\* variant: "and" in place of "or"
RsiPassed_And(rsi) ==
    RatLess(RatInt(RSI_OVERBOUGHT), rsi) /\ RatLess(rsi, RatInt(RSI_OVERSOLD))

\* variant: the bounds themselves count as extreme
RsiPassed_Inclusive(rsi) ==
    \/ ~RatLess(rsi, RatInt(RSI_OVERBOUGHT))
    \/ ~RatLess(RatInt(RSI_OVERSOLD), rsi)

\* rsi > RSI_OVERBOUGHT or rsi < RSI_OVERSOLD
RsiPassed(rsi) ==
    RatLess(RatInt(RSI_OVERBOUGHT), rsi) \/ RatLess(rsi, RatInt(RSI_OVERSOLD))

\* "while self.is_running" of _verify_worker: back to verify_queue.get(),
\* or out of the loop
NextTask ==
    IF monitor_running THEN IdleWorker ELSE [IdleWorker EXCEPT !.pc = "done"]

\* the worker's task is over: task_done() and the loop test
Finish(st, w) == [st EXCEPT !.workers[w] = NextTask]

\* the cache missed: the worker suspends in client.get_klines
Suspend(st, w, loc, pc) ==
    [st EXCEPT !.workers[w] = [loc EXCEPT !.pc = pc, !.now = clock]]

send_signal(st, w, loc) ==
    LET s1 == [st EXCEPT !.signals_found = @ + 1,
                         !.last_signal_time[loc.symbol] = clock]
    IN IF CacheHit(loc.symbol, "5m")
       THEN [s1 EXCEPT !.workers[w] =
                [loc EXCEPT !.pc = "ticker",
                            !.candles_5m =
                                klines_cache[<<loc.symbol, "5m">>].data]]
       ELSE Suspend(s1, w, loc, "fetch_5m")

\* In After15m and After1h the closing prices and the RSI are bound as
\* values, so that TLC computes them once.

\* variant: no "len(prices_15m) < 30" return
After15m_NoLengthCheck(st, w, loc, klines_15m) ==
    IF Len(klines_15m) = 0 THEN Finish(st, w)
    ELSE LET Decide(prices_15m, rsi_15m) ==
                 LET loc2 == [loc EXCEPT !.prices_15m = prices_15m,
                                         !.rsi_15m = rsi_15m]
                 IN IF RsiPassed(loc.rsi_1h) /\ RsiPassed(rsi_15m)
                    THEN send_signal(st, w, loc2)
                    ELSE Finish(st, w)
         IN CHOOSE next \in
                {Decide(p, r) :
                     p \in {ClosePrices(klines_15m)},
                     r \in {get_last_rsi(ClosePrices(klines_15m),
                                         RSI_PERIOD)}} : TRUE

After15m(st, w, loc, klines_15m) ==
    IF Len(klines_15m) = 0 THEN Finish(st, w)
    ELSE LET Decide(prices_15m, rsi_15m) ==
                 LET loc2 == [loc EXCEPT !.prices_15m = prices_15m,
                                         !.rsi_15m = rsi_15m]
                 IN IF Len(prices_15m) < MIN_CANDLES THEN Finish(st, w)
                    ELSE IF RsiPassed(loc.rsi_1h) /\ RsiPassed(rsi_15m)
                         THEN send_signal(st, w, loc2)
                         ELSE Finish(st, w)
         IN CHOOSE next \in
                {Decide(p, r) :
                     p \in {ClosePrices(klines_15m)},
                     r \in {get_last_rsi(ClosePrices(klines_15m),
                                         RSI_PERIOD)}} : TRUE

\* variant: no "if not rsi_1h_passed: return"
After1h_NoEarlyReturn(st, w, loc, klines_1h) ==
    IF Len(klines_1h) = 0 THEN Finish(st, w)
    ELSE LET Decide(prices_1h, rsi_1h) ==
                 LET loc2 == [loc EXCEPT !.prices_1h = prices_1h,
                                         !.rsi_1h = rsi_1h]
                 IN IF Len(prices_1h) < MIN_CANDLES THEN Finish(st, w)
                    ELSE IF CacheHit(loc.symbol, "15m")
                         THEN After15m(st, w, loc2,
                                  klines_cache[<<loc.symbol, "15m">>].data)
                         ELSE Suspend(st, w, loc2, "fetch_15m")
         IN CHOOSE next \in
                {Decide(p, r) :
                     p \in {ClosePrices(klines_1h)},
                     r \in {get_last_rsi(ClosePrices(klines_1h),
                                         RSI_PERIOD)}} : TRUE

After1h(st, w, loc, klines_1h) ==
    IF Len(klines_1h) = 0 THEN Finish(st, w)
    ELSE LET Decide(prices_1h, rsi_1h) ==
                 LET loc2 == [loc EXCEPT !.prices_1h = prices_1h,
                                         !.rsi_1h = rsi_1h]
                 IN IF Len(prices_1h) < MIN_CANDLES THEN Finish(st, w)
                    ELSE IF ~RsiPassed(rsi_1h) THEN Finish(st, w)
                    ELSE IF CacheHit(loc.symbol, "15m")
                         THEN After15m(st, w, loc2,
                                  klines_cache[<<loc.symbol, "15m">>].data)
                         ELSE Suspend(st, w, loc2, "fetch_15m")
         IN CHOOSE next \in
                {Decide(p, r) :
                     p \in {ClosePrices(klines_1h)},
                     r \in {get_last_rsi(ClosePrices(klines_1h),
                                         RSI_PERIOD)}} : TRUE

verify_with_rsi(st, w, symbol, price_change) ==
    LET loc == [IdleWorker EXCEPT !.symbol = symbol,
                                  !.price_change = price_change]
    IN IF InCooldown(symbol, clock) THEN Finish(st, w)
       ELSE IF CacheHit(symbol, "1h")
            THEN After1h(st, w, loc, klines_cache[<<symbol, "1h">>].data)
            ELSE Suspend(st, w, loc, "fetch_1h")

Commit(st) ==
    /\ workers' = st.workers
    /\ last_signal_time' = st.last_signal_time
    /\ signals_found' = st.signals_found

\* ---------------------------------------------------------------------
\* _verify_worker: one iteration from verify_queue.get() to the first
\* suspension of the verification
\* ---------------------------------------------------------------------
\* variant: verify_sem with one slot fewer than there are workers
worker_count_OneFewer == NumWorkers - 1

\* self.worker_count, the slots of verify_sem
worker_count == NumWorkers

\* the workers inside "async with self.verify_sem"
Holding ==
    {w \in Workers : workers[w].pc \notin {"get", "acquire", "done",
                                           "cancelled"}}

\* Semaphore.locked(): no slot is free, "async with" has to wait
locked == Cardinality(Holding) >= worker_count

\* a worker at verify_queue.get() takes the head of the queue; one that
\* has to wait for verify_sem keeps its item and goes on when a slot is
\* free
Dequeue(w) ==
    IF workers[w].pc = "get"
    THEN /\ verify_queue # <<>>
         /\ LET item == Head(verify_queue)
            IN IF item = None
               THEN Commit([Current EXCEPT !.workers[w].pc = "done"])
               ELSE IF InCooldown(item.symbol, clock)
               THEN Commit(Finish(Current, w))
               ELSE IF locked
               THEN Commit([Current EXCEPT !.workers[w] =
                               [IdleWorker EXCEPT
                                   !.pc = "acquire",
                                   !.symbol = item.symbol,
                                   !.price_change = item.price_change]])
               ELSE Commit(verify_with_rsi(Current, w, item.symbol,
                                           item.price_change))
         /\ verify_queue' = Tail(verify_queue)
         /\ UNCHANGED <<dropped, errors_count, RSI_PERIOD, clock, prices,
                        timestamps, ticks_received, klines_cache,
                        rescan_wake, aborted>>
         /\ UNCHANGED <<limiterVars, wsVars, runVars, restVars, callVars>>
    ELSE /\ workers[w].pc = "acquire"
         /\ ~locked
         /\ Commit(verify_with_rsi(Current, w, workers[w].symbol,
                                   workers[w].price_change))
         /\ UNCHANGED <<dropped, errors_count, RSI_PERIOD, clock, prices,
                        timestamps, ticks_received, klines_cache,
                        rescan_wake, aborted, verify_queue>>
         /\ UNCHANGED <<limiterVars, wsVars, runVars, restVars, callVars>>

\* variant: _get_klines_cached without its "except Exception"
Propagates_NoExcept(outcome) == outcome.kind = "error"

\* whether an exception of the fetch leaves _get_klines_cached: never, its
\* "except Exception" returns None
Propagates(outcome) == FALSE

\* client.get_klines returns to _get_klines_cached, called by verify_with_rsi
KlinesResponse(w, interval, outcome) ==
    LET loc == workers[w]
        data == Received(outcome)
    IN /\ loc.pc = IF interval = "1h" THEN "fetch_1h" ELSE "fetch_15m"
       /\ IF Propagates(outcome)
          THEN /\ errors_count' = errors_count + 1
               /\ klines_cache' = klines_cache
               /\ Commit(Finish(Current, w))
          ELSE /\ errors_count' = errors_count
               /\ klines_cache' =
                      CacheStore(loc.symbol, interval, loc.now, data)
               /\ IF interval = "1h"
                  THEN Commit(After1h(Current, w, loc, data))
                  ELSE Commit(After15m(Current, w, loc, data))
       /\ aborted' = IF outcome \in FailedOutcomes
                     THEN [aborted EXCEPT ![loc.symbol] =
                              [at |-> clock, odd |-> ~@.odd,
                               nodata |-> Len(data) = 0]]
                     ELSE aborted
       /\ UNCHANGED <<dropped, RSI_PERIOD, clock, prices, timestamps,
                      verify_queue, ticks_received, rescan_wake>>
       /\ UNCHANGED <<limiterVars, wsVars, runVars, restVars, callVars>>

\* send_signal: the 5m candles for the chart arrive through the cache helper
ChartKlinesResponse(w, outcome) ==
    LET loc == workers[w]
        data == Received(outcome)
    IN /\ loc.pc = "fetch_5m"
       /\ klines_cache' = CacheStore(loc.symbol, "5m", loc.now, data)
       /\ IF Len(data) = 0
          THEN Commit(Suspend(Current, w, loc, "fetch_5m_direct"))
          ELSE Commit([Current EXCEPT !.workers[w] =
                          [loc EXCEPT !.pc = "ticker", !.candles_5m = data]])
       /\ UNCHANGED <<dropped, errors_count, RSI_PERIOD, clock, prices,
                      timestamps, verify_queue, ticks_received, rescan_wake,
                      aborted>>
       /\ UNCHANGED <<limiterVars, wsVars, runVars, restVars, callVars>>

\* send_signal: "if not candles_5m" asks the client directly, uncached
ChartDirectResponse(w, outcome) ==
    LET loc == workers[w]
    IN /\ loc.pc = "fetch_5m_direct"
       /\ workers' = [workers EXCEPT ![w] =
              [loc EXCEPT !.pc = "ticker", !.candles_5m = Received(outcome)]]
       /\ UNCHANGED <<dropped, errors_count, RSI_PERIOD, clock, prices,
                      timestamps, last_signal_time, verify_queue,
                      ticks_received, signals_found, klines_cache, rescan_wake,
                      aborted>>
       /\ UNCHANGED <<limiterVars, wsVars, runVars, restVars, callVars>>

\* send_signal: the 24h data block ends (its failure only zeroes the
\* figures), then the chart is generated; chart is "ok", "none" or "raise"
ChartOutcomeKinds == {"ok", "none", "raise"}

TickerResponse(w, chart) ==
    LET loc == workers[w]
        draw == Len(loc.candles_5m) > 0
    IN /\ loc.pc = "ticker"
       /\ IF draw /\ chart = "ok"
          THEN workers' = [workers EXCEPT ![w].pc = "send_photo"]
          ELSE workers' = [workers EXCEPT ![w] = NextTask]
       /\ errors_count' = IF draw /\ chart = "raise"
                          THEN errors_count + 1 ELSE errors_count
       /\ UNCHANGED <<dropped, RSI_PERIOD, clock, prices, timestamps,
                      last_signal_time, verify_queue, ticks_received,
                      signals_found, klines_cache, rescan_wake, aborted>>
       /\ UNCHANGED <<limiterVars, wsVars, runVars, restVars, callVars>>

\* send_signal: telegram.send_photo returns or raises
PhotoResponse(w, raised) ==
    /\ workers[w].pc = "send_photo"
    /\ workers' = [workers EXCEPT ![w] = NextTask]
    /\ errors_count' = IF raised THEN errors_count + 1 ELSE errors_count
    /\ UNCHANGED <<dropped, RSI_PERIOD, clock, prices, timestamps,
                   last_signal_time, verify_queue, ticks_received,
                   signals_found, klines_cache, rescan_wake, aborted>>
    /\ UNCHANGED <<limiterVars, wsVars, runVars, restVars, callVars>>

\* ---------------------------------------------------------------------
\* Specification of HybridMonitor
\* ---------------------------------------------------------------------
Checking(outcomes) ==
    \/ \E w \in Workers : Dequeue(w)
    \/ \E w \in Workers, i \in {"1h", "15m"}, o \in outcomes :
           KlinesResponse(w, i, o)

Alerting(charts) ==
    \/ \E w \in Workers, o \in charts : ChartKlinesResponse(w, o)
    \/ \E w \in Workers, o \in charts : ChartDirectResponse(w, o)
    \/ \E w \in Workers, c \in ChartOutcomeKinds : TickerResponse(w, c)
    \/ \E w \in Workers, r \in BOOLEAN : PhotoResponse(w, r)

Rescanning(horizon) ==
    \/ per_minute_rescan
    \/ \E d \in ClockSteps : AdvanceClock(d, horizon)

Detection(horizon) ==
    \/ \E m \in Messages : handle_ws_message(m.s, m.c)
    \/ Rescanning(horizon)

Next ==
    \/ Detection(MaxElapsed)
    \/ Checking(KlinesOutcomes)
    \/ Alerting(ChartOutcomes)

Spec == Init /\ [][Next]_vars

\* ---------------------------------------------------------------------
\* The monitor when every candle fetch is served and the 1h and 15m series
\* are rising, so that every verification outside the cooldown alerts:
\* the enqueue checks then meet every value of last_signal_time.
\* ---------------------------------------------------------------------
ValidMessages == {m \in Messages : ValidTick(Upper(m.s), m.c)}

NextEnqueue ==
    \/ \E m \in ValidMessages : handle_ws_message(m.s, m.c)
    \/ Rescanning(MaxElapsed)
    \/ Checking({ListOutcome(SeriesUp)})
    \/ \E w \in Workers : ChartKlinesResponse(w, ChartReady)
    \/ \E w \in Workers, c \in ChartOutcomeKinds : TickerResponse(w, c)
    \/ \E w \in Workers, r \in BOOLEAN : PhotoResponse(w, r)

SpecEnqueue == Init /\ [][NextEnqueue]_vars

\* ---------------------------------------------------------------------
\* Verification under every kind of 1h and 15m candle answer and every RSI
\* period, when the 5m candles of the chart are served.  The monitor has
\* been running for WINDOW + 1 seconds; it received a tick of X at 100 at
\* its start and one at 109 just now, which enqueued a task; after that
\* the ticker stream is silent.
\* ---------------------------------------------------------------------
InitVerifyMonitor ==
    /\ RSI_PERIOD \in Periods
    /\ clock = StartTime
    /\ prices = [s \in Symbols |-> <<100, 109>>]
    /\ timestamps = [s \in Symbols |-> <<StartTime - WINDOW - 1, StartTime>>]
    /\ last_signal_time = [s \in Symbols |-> 0]
    /\ verify_queue =
           [i \in DOMAIN SymbolList |->
               Item(SymbolList[i], PriceChange(109, 100), StartTime)]
    /\ ticks_received = 2 * Len(SymbolList)
    /\ signals_found = 0
    /\ errors_count = 0
    /\ dropped = FALSE
    /\ klines_cache = [k \in Symbols \X Intervals |-> NoEntry]
    /\ workers = [w \in Workers |-> IdleWorker]
    /\ rescan_wake = StartTime + RESCAN_INTERVAL
    /\ aborted = [s \in Symbols |-> NeverAborted]

InitVerify ==
    /\ InitVerifyMonitor
    /\ InitLimiter /\ InitWs /\ InitRun /\ InitRest /\ InitCall

NextVerify ==
    \/ Rescanning(VerifyElapsed)
    \/ Checking(AllOutcomes)
    \/ \E w \in Workers : ChartKlinesResponse(w, ChartReady)
    \/ \E w \in Workers, c \in ChartOutcomeKinds : TickerResponse(w, c)
    \/ \E w \in Workers, r \in BOOLEAN : PhotoResponse(w, r)

SpecVerify == InitVerify /\ [][NextVerify]_vars

\* ---------------------------------------------------------------------
\* The same monitor with the default RSI period, when every 1h and 15m
\* fetch succeeds with an extreme series.  Each worker coroutine is
\* scheduled by the event loop, and every request it awaits ends (the HTTP
\* client has a timeout).
\* ---------------------------------------------------------------------
InitLive == InitVerify /\ RSI_PERIOD = DefaultPeriod

WorkerRuns(w) ==
    \/ Dequeue(w)
    \/ \E i \in {"1h", "15m"}, o \in ExtremeOutcomes : KlinesResponse(w, i, o)
    \/ ChartKlinesResponse(w, ChartReady)
    \/ \E c \in ChartOutcomeKinds : TickerResponse(w, c)
    \/ \E r \in BOOLEAN : PhotoResponse(w, r)

NextLive == Rescanning(VerifyElapsed) \/ \E w \in Workers : WorkerRuns(w)

SpecLive ==
    InitLive /\ [][NextLive]_vars /\ \A w \in Workers : WF_vars(WorkerRuns(w))

\* ---------------------------------------------------------------------
\* The same monitor when the candles of a fetch may carry no usable close.
\* ---------------------------------------------------------------------
MalformedOutcomes == {ListOutcome(SeriesZeroClose), ListOutcome(SeriesUp)}

NextMalformed ==
    \/ Rescanning(VerifyElapsed)
    \/ Checking(MalformedOutcomes)
    \/ \E w \in Workers : ChartKlinesResponse(w, ChartReady)
    \/ \E w \in Workers : TickerResponse(w, "ok")
    \/ \E w \in Workers : PhotoResponse(w, FALSE)

SpecMalformed == InitLive /\ [][NextMalformed]_vars

\* ---------------------------------------------------------------------
\* The same, when the requests of the first worker may never end: the
\* other workers are scheduled, the first one is not bound to go on.
\* ---------------------------------------------------------------------
Stalled == {1}

SpecStalled ==
    /\ InitLive
    /\ [][NextLive]_vars
    /\ \A w \in Workers \ Stalled : WF_vars(WorkerRuns(w))

\* ---------------------------------------------------------------------
\* The stream goes on while tasks are verified: the monitor of SpecLive's
\* initial state, on which valid ticks keep arriving while the workers
\* fetch rising series and the rescan runs.
\* ---------------------------------------------------------------------
NextAppend ==
    \/ \E m \in ValidMessages :
           HandleTick(m.s, m.c, 2 * Len(SymbolList) + MaxTicks - 1)
    \/ Rescanning(VerifyElapsed)
    \/ Checking({ListOutcome(SeriesUp)})
    \/ \E w \in Workers : ChartKlinesResponse(w, ChartReady)
    \/ \E w \in Workers, c \in ChartOutcomeKinds : TickerResponse(w, c)
    \/ \E w \in Workers, r \in BOOLEAN : PhotoResponse(w, r)

SpecAppend == InitLive /\ [][NextAppend]_vars

\* ---------------------------------------------------------------------
\* The cooldown at its boundary: the monitor of SpecLive's initial state,
\* with time passing in half cooldowns, so that ticks arrive 0, 150, 300
\* and 450 seconds after an alert; every tick is one of X at 109, which
\* meets the threshold against the 100 before the window.  The chart of
\* an alert is not generated, which ends send_signal after get_ticker.
\* ---------------------------------------------------------------------
CooldownSteps == {cooldown \div 2}
RisenMessages == {m \in ValidMessages : m.c.val = 109}

NextCooldown ==
    \/ \E m \in RisenMessages :
           HandleTick(m.s, m.c, 2 * Len(SymbolList) + MaxTicks - 1)
    \/ \E d \in CooldownSteps : AdvanceClock(d, CooldownElapsed)
    \/ Checking({ListOutcome(SeriesUp)})
    \/ \E w \in Workers : ChartKlinesResponse(w, ChartReady)
    \/ \E w \in Workers : TickerResponse(w, "none")

SpecCooldown == InitLive /\ [][NextCooldown]_vars

\* the same with the per-minute rescan running, and one tick of X at 109
\* after the two of the initial state
NextRescan ==
    \/ \E m \in RisenMessages :
           HandleTick(m.s, m.c, 2 * Len(SymbolList) + 1)
    \/ \E d \in CooldownSteps : AdvanceClock(d, RescanElapsed)
    \/ Checking({ListOutcome(SeriesUp)})
    \/ \E w \in Workers : ChartKlinesResponse(w, ChartReady)
    \/ \E w \in Workers : TickerResponse(w, "none")
    \/ per_minute_rescan

SpecRescan == InitLive /\ [][NextRescan]_vars

\* ---------------------------------------------------------------------
\* The candidate filter alone: ticks around the threshold, ticks that are
\* not valid, and rescans, with no worker running, so that the tasks stay
\* on the queue.
\* ---------------------------------------------------------------------
FilterPrices == {92, 93, 100, 107, 108}
FilterMessages ==
    {[s |-> "X", c |-> Num(p)] : p \in FilterPrices}
        \cup Messages

NextFilter ==
    \/ \E m \in FilterMessages : handle_ws_message(m.s, m.c)
    \/ Rescanning(MaxElapsed)

SpecFilter == Init /\ [][NextFilter]_vars

\* ---------------------------------------------------------------------
\* RateLimiter.wait
\* ---------------------------------------------------------------------
\* variant: the time read before the sleep is stored
GrantTime_BeforeSleep(c) ==
    IF callers[c].pc = "sleeping" THEN callers[c].now ELSE rl_clock

\* self.last_request_time = time.time(), read when the grant is made
GrantTime(c) == rl_clock

Grant(c) ==
    /\ last_request_time' = GrantTime(c)
    /\ requests_made' = requests_made + 1
    /\ grants' = Append(grants, rl_clock)
    /\ lock' = 0
    /\ callers' = [callers EXCEPT ![c] = IdleCaller]

\* the body of "async with self.lock" up to its first suspension
Enter(c) ==
    LET now == rl_clock
        time_since_last == now - last_request_time
    IN IF time_since_last < min_interval
       THEN /\ lock' = c
            /\ callers' = [callers EXCEPT ![c] =
                   [pc |-> "sleeping", now |-> now,
                    wake |-> now + (min_interval - time_since_last)]]
            /\ UNCHANGED <<last_request_time, requests_made, grants>>
       ELSE Grant(c)

\* a coroutine calls wait(): it takes the lock if it is free, else queues
wait(c) ==
    /\ callers[c].pc = "idle"
    /\ IF lock = 0 THEN Enter(c)
       ELSE /\ callers' = [callers EXCEPT ![c].pc = "blocked"]
            /\ UNCHANGED <<last_request_time, requests_made, grants, lock>>
    /\ UNCHANGED <<rl_clock, monitorVars, wsVars, runVars, restVars, callVars>>

\* the lock is released to a queued caller
LockAcquired(c) ==
    /\ callers[c].pc = "blocked"
    /\ lock = 0
    /\ Enter(c)
    /\ UNCHANGED <<rl_clock, monitorVars, wsVars, runVars, restVars, callVars>>

\* asyncio.sleep(wait_time) returns
SleepReturns(c) ==
    /\ callers[c].pc = "sleeping"
    /\ rl_clock >= callers[c].wake
    /\ Grant(c)
    /\ UNCHANGED <<rl_clock, monitorVars, wsVars, runVars, restVars, callVars>>

AdvanceRlClock(d) ==
    /\ rl_clock + d <= RlStart + MaxRlElapsed
    /\ rl_clock' = rl_clock + d
    /\ UNCHANGED <<last_request_time, requests_made, lock, callers, grants,
                   monitorVars, wsVars, runVars, restVars, callVars>>

NextRL ==
    \/ \E c \in Callers : wait(c)
    \/ \E c \in Callers : LockAcquired(c)
    \/ \E c \in Callers : SleepReturns(c)
    \/ \E d \in RlSteps : AdvanceRlClock(d)

SpecRL == Init /\ [][NextRL]_vars

\* ---------------------------------------------------------------------
\* MexcWSClient: connect_all, _connect_chunk, _process_messages and stop.
\* chunks[c].sleeps is history: the number of reconnect sleeps chunk c has
\* finished since its last successful connection.  chunks[c].keep_alive is
\* the position of the chunk's _keep_alive task and chunks[c].pong_missed
\* is history: a ping of the current connection was not answered in time.
\* ---------------------------------------------------------------------
\* variant: no MAX_RECONNECT_DELAY
NextDelay_NoCeiling(reconnect_delay) ==
    Rat(reconnect_delay[1] * 3, reconnect_delay[2] * 2)

\* min(reconnect_delay * 1.5, self.MAX_RECONNECT_DELAY)
NextDelay(reconnect_delay) ==
    LET longer == Rat(reconnect_delay[1] * 3, reconnect_delay[2] * 2)
    IN IF RatLess(RatInt(MAX_RECONNECT_DELAY), longer)
       THEN RatInt(MAX_RECONNECT_DELAY)
       ELSE longer

\* "while self.is_running": connect, or leave the loop
WhileRunning(loc) ==
    IF is_running THEN [loc EXCEPT !.pc = "connecting"]
    ELSE [loc EXCEPT !.pc = "done"]

\* variant: "break" whatever the flag
AfterConnection_NoRetry(loc) == [loc EXCEPT !.pc = "done"]

\* after the "try": "if self.is_running" sleep reconnect_delay, else break
AfterConnection(loc) ==
    IF is_running THEN [loc EXCEPT !.pc = "sleeping"]
    ELSE [loc EXCEPT !.pc = "done"]

\* "finally: keep_alive_task.cancel()", then the "except" branches
ConnectionEnded(loc) == AfterConnection([loc EXCEPT !.keep_alive = "none"])

\* variant: "break" without "await ws.close()"
OnPongTimeout_NoClose(loc) ==
    [loc EXCEPT !.keep_alive = "ended", !.pong_missed = TRUE]

\* "except asyncio.TimeoutError: await ws.close()"
OnPongTimeout(loc) ==
    [loc EXCEPT !.keep_alive = "closing", !.pong_missed = TRUE]

\* asyncio.create_task(ws_client.connect_all()) in the owner of the client
CreateConnectAll ==
    /\ connect_all_pc = "none"
    /\ connect_all_pc' = "created"
    /\ UNCHANGED <<is_running, chunks, stopped, received>>
    /\ UNCHANGED <<monitorVars, limiterVars, runVars, restVars, callVars>>

\* connect_all from its start to "await asyncio.gather(*tasks)"
connect_all ==
    /\ connect_all_pc = "created"
    /\ is_running' = TRUE
    /\ chunks' = [c \in Chunks |-> [NoChunk EXCEPT !.pc = "created"]]
    /\ connect_all_pc' = "gather"
    /\ UNCHANGED <<stopped, received>>
    /\ UNCHANGED <<monitorVars, limiterVars, runVars, restVars, callVars>>

\* connect_all: gather returns, "finally: self.is_running = False"
GatherReturns ==
    /\ connect_all_pc = "gather"
    /\ \A c \in Chunks : chunks[c].pc = "done"
    /\ is_running' = FALSE
    /\ connect_all_pc' = "done"
    /\ UNCHANGED <<chunks, stopped, received>>
    /\ UNCHANGED <<monitorVars, limiterVars, runVars, restVars, callVars>>

\* _connect_chunk from its start to its first suspension
_connect_chunk(c) ==
    /\ chunks[c].pc = "created"
    /\ chunks' = [chunks EXCEPT ![c] =
           WhileRunning([@ EXCEPT
               !.reconnect_delay = RatInt(RECONNECT_DELAY)])]
    /\ UNCHANGED <<is_running, connect_all_pc, stopped, received>>
    /\ UNCHANGED <<monitorVars, limiterVars, runVars, restVars, callVars>>

\* websockets.connect returns a connection ("reconnect_delay =
\* self.RECONNECT_DELAY", then _subscribe_symbols starts sending), or
\* raises; a running client sees at most max_failures failures in a row
ConnectResult(c, connected, max_failures) ==
    /\ chunks[c].pc = "connecting"
    /\ IF connected
       THEN chunks' = [chunks EXCEPT ![c] =
                [NoChunk EXCEPT
                    !.pc = "subscribing",
                    !.reconnect_delay = RatInt(RECONNECT_DELAY)]]
       ELSE /\ is_running => chunks[c].sleeps < max_failures
            /\ chunks' = [chunks EXCEPT ![c] = AfterConnection(@)]
    /\ UNCHANGED <<is_running, connect_all_pc, stopped, received>>
    /\ UNCHANGED <<monitorVars, limiterVars, runVars, restVars, callVars>>

\* _subscribe_symbols has sent the last subscription; _process_messages
\* starts receiving
_subscribe_symbols(c) ==
    /\ chunks[c].pc = "subscribing"
    /\ chunks' = [chunks EXCEPT ![c].pc = "receiving",
                                ![c].keep_alive = "sleep"]
    /\ UNCHANGED <<is_running, connect_all_pc, stopped, received>>
    /\ UNCHANGED <<monitorVars, limiterVars, runVars, restVars, callVars>>

\* _process_messages: "async for msg in ws" hands over a message, which is
\* processed, and the loop waits for the next one
Receive(c) ==
    /\ chunks[c].pc = "receiving"
    /\ received' = ~received
    /\ UNCHANGED <<is_running, connect_all_pc, chunks, stopped>>
    /\ UNCHANGED <<monitorVars, limiterVars, runVars, restVars, callVars>>

\* the connection closes: "async for" ends or raises ConnectionClosed;
\* during the subscriptions every ws.send fails, is logged, and the
\* "async for" that follows ends at once
ConnectionCloses(c) ==
    /\ chunks[c].pc \in {"subscribing", "receiving"}
    /\ chunks' = [chunks EXCEPT ![c] = ConnectionEnded(@)]
    /\ UNCHANGED <<is_running, connect_all_pc, stopped, received>>
    /\ UNCHANGED <<monitorVars, limiterVars, runVars, restVars, callVars>>

\* _keep_alive: asyncio.sleep(PING_INTERVAL) is over, the JSON ping and the
\* protocol ping are sent, and the task awaits the pong
PingSent(c) ==
    /\ chunks[c].pc = "receiving"
    /\ chunks[c].keep_alive = "sleep"
    /\ chunks' = [chunks EXCEPT ![c].keep_alive = "pong"]
    /\ UNCHANGED <<is_running, connect_all_pc, stopped, received>>
    /\ UNCHANGED <<monitorVars, limiterVars, runVars, restVars, callVars>>

\* _keep_alive: the pong arrives within PING_TIMEOUT
PongArrives(c) ==
    /\ chunks[c].pc = "receiving"
    /\ chunks[c].keep_alive = "pong"
    /\ chunks' = [chunks EXCEPT ![c].keep_alive = "sleep"]
    /\ UNCHANGED <<is_running, connect_all_pc, stopped, received>>
    /\ UNCHANGED <<monitorVars, limiterVars, runVars, restVars, callVars>>

\* _keep_alive: asyncio.wait_for(pong, timeout=PING_TIMEOUT) times out
PongTimeout(c) ==
    /\ chunks[c].pc = "receiving"
    /\ chunks[c].keep_alive = "pong"
    /\ chunks' = [chunks EXCEPT ![c] = OnPongTimeout(@)]
    /\ UNCHANGED <<is_running, connect_all_pc, stopped, received>>
    /\ UNCHANGED <<monitorVars, limiterVars, runVars, restVars, callVars>>

\* ws.close() of _keep_alive returns (at the latest after close_timeout):
\* the task ends, and the "async for" of _process_messages ends
CloseCompletes(c) ==
    /\ chunks[c].pc = "receiving"
    /\ chunks[c].keep_alive = "closing"
    /\ chunks' = [chunks EXCEPT ![c] = ConnectionEnded(@)]
    /\ UNCHANGED <<is_running, connect_all_pc, stopped, received>>
    /\ UNCHANGED <<monitorVars, limiterVars, runVars, restVars, callVars>>

\* asyncio.sleep(reconnect_delay) returns: backoff, then the loop test
SleepEnds(c) ==
    /\ chunks[c].pc = "sleeping"
    /\ chunks' = [chunks EXCEPT ![c] =
           WhileRunning([@ EXCEPT
               !.reconnect_delay = NextDelay(@),
               !.sleeps = @ + 1])]
    /\ UNCHANGED <<is_running, connect_all_pc, stopped, received>>
    /\ UNCHANGED <<monitorVars, limiterVars, runVars, restVars, callVars>>

\* stop(), called by the owner of the client after it has created the
\* connect_all task
stop ==
    /\ connect_all_pc # "none"
    /\ is_running' = FALSE
    /\ stopped' = TRUE
    /\ UNCHANGED <<connect_all_pc, chunks, received>>
    /\ UNCHANGED <<monitorVars, limiterVars, runVars, restVars, callVars>>

WsSteps(max_failures) ==
    \/ CreateConnectAll
    \/ connect_all
    \/ GatherReturns
    \/ stop
    \/ \E c \in Chunks : _connect_chunk(c)
    \/ \E c \in Chunks, connected \in BOOLEAN :
           ConnectResult(c, connected, max_failures)
    \/ \E c \in Chunks : _subscribe_symbols(c)
    \/ \E c \in Chunks : Receive(c)
    \/ \E c \in Chunks : ConnectionCloses(c)
    \/ \E c \in Chunks : SleepEnds(c)
    \/ \E c \in Chunks : PingSent(c)
    \/ \E c \in Chunks : PongArrives(c)
    \/ \E c \in Chunks : PongTimeout(c)
    \/ \E c \in Chunks : CloseCompletes(c)

NextWs == WsSteps(MaxFailures)

SpecWs == Init /\ [][NextWs]_vars

\* ws.close() waits for the closing handshake for close_timeout = 10
\* seconds at most, so it returns; asyncio.sleep(reconnect_delay) returns
NextWsLive == WsSteps(LiveFailures)

SpecWsLive ==
    /\ Init /\ [][NextWsLive]_vars
    /\ \A c \in Chunks : WF_vars(CloseCompletes(c))
    /\ \A c \in Chunks : WF_vars(SleepEnds(c))

\* ---------------------------------------------------------------------
\* The stream feeding the monitor: every chunk of the client that
\* HybridMonitor.start created with on_message = handle_ws_message is
\* receiving, and the monitor is in SpecLive's initial state.  A frame is
\* what "async for msg in ws" hands to the body of _process_messages.
\* ---------------------------------------------------------------------
\* frames that json.loads rejects, that are not a dict, that report a
\* subscription error or success, that carry no symbol or price, whose
\* price float() rejects or is not positive, and whose symbol is not a
\* string (handle_ws_message fails on "upper" and counts the error)
PlainFrames ==
    {[kind |-> k, s |-> "", c |-> Absent] :
        k \in {"not_json", "not_dict", "rs_error", "success", "unrecognised",
               "bad_price", "not_positive", "bad_symbol"}}
\* frames that _process_ticker_data passes on as {"s": symbol, "c": price}
TickerFrames ==
    {[kind |-> "ticker", s |-> m.s, c |-> m.c] :
        m \in {n \in Messages : n.s # "" /\ n.c.kind = "num" /\ n.c.val > 0}}
Frames == PlainFrames \cup TickerFrames

\* variant: _process_messages without its "except json.JSONDecodeError"
Escapes_NoExcept(frame) == frame.kind = "not_json"

\* whether an exception raised while a frame is processed leaves the loop
\* body of _process_messages: never, the body is one try/except
Escapes(frame) == FALSE

\* one pass of the loop body of _process_messages, _process_ticker_data
\* and the callback included
_process_messages(c, frame) ==
    /\ chunks[c].pc = "receiving"
    /\ received' = ~received
    /\ chunks' = IF Escapes(frame)
                 THEN [chunks EXCEPT ![c] = ConnectionEnded(@)]
                 ELSE chunks
    /\ IF frame.kind = "ticker"
       THEN OnTick(frame.s, frame.c, 2 * Len(SymbolList) + MaxTicks - 1)
       ELSE IF frame.kind = "bad_symbol"
       THEN /\ errors_count < MaxErrors
            /\ errors_count' = errors_count + 1
            /\ UNCHANGED <<dropped, RSI_PERIOD, clock, prices, timestamps,
                           last_signal_time, verify_queue, ticks_received,
                           signals_found, klines_cache, workers, rescan_wake,
                           aborted>>
       ELSE UNCHANGED monitorVars
    /\ UNCHANGED <<is_running, connect_all_pc, stopped>>
    /\ UNCHANGED <<limiterVars, runVars, restVars, callVars>>

InitLoops ==
    /\ InitVerifyMonitor
    /\ RSI_PERIOD = DefaultPeriod
    /\ InitLimiter
    /\ is_running = TRUE
    /\ connect_all_pc = "gather"
    /\ chunks = [c \in Chunks |->
                    [NoChunk EXCEPT !.pc = "receiving",
                                    !.reconnect_delay =
                                        RatInt(RECONNECT_DELAY),
                                    !.keep_alive = "sleep"]]
    /\ stopped = FALSE
    /\ received = FALSE
    /\ InitRunAt("waiting")
    /\ InitRest /\ InitCall

NextLoops ==
    \/ \E c \in Chunks, frame \in Frames : _process_messages(c, frame)
    \/ Checking({ErrorOutcome, ListOutcome(SeriesUp)})
    \/ \E w \in Workers : ChartKlinesResponse(w, ChartReady)
    \/ \E w \in Workers, c \in ChartOutcomeKinds : TickerResponse(w, c)
    \/ \E w \in Workers, r \in BOOLEAN : PhotoResponse(w, r)

SpecLoops == InitLoops /\ [][NextLoops]_vars

\* ---------------------------------------------------------------------
\* Shutdown: main.signal_handler, HybridMonitor.start from
\* "await self.shutdown_event.wait()" on, and HybridMonitor.stop.  The
\* monitor starts in SpecLoops' initial state, and the 1h series the
\* workers fetch is neutral.  A task that was cancelled
\* while not done is at "cancelled" until the event loop has thrown
\* CancelledError into it; none of the handlers on its way catches that.
\* ---------------------------------------------------------------------
\* variant: cancel() has no effect
Cancel_Ignored(pc) == pc

\* "if not task.done(): task.cancel()"
Cancel(pc) == IF pc = "done" THEN "done" ELSE "cancelled"

\* signal_handler(signum, frame), installed for SIGINT and SIGTERM
signal_handler ==
    /\ start_pc # "done"
    /\ monitor_running' = FALSE
    /\ set_pending' = TRUE
    /\ signalled' = TRUE
    /\ UNCHANGED <<shutdown_event, start_pc, stop_pcs, stats_pc, rescan_pc,
                   final_sent>>
    /\ UNCHANGED <<monitorVars, limiterVars, wsVars, restVars, callVars>>

\* the event loop runs the scheduled monitor.shutdown_event.set
EventSetCallback ==
    /\ set_pending
    /\ shutdown_event' = TRUE
    /\ set_pending' = FALSE
    /\ UNCHANGED <<monitor_running, start_pc, stop_pcs, stats_pc, rescan_pc,
                   final_sent, signalled>>
    /\ UNCHANGED <<monitorVars, limiterVars, wsVars, restVars, callVars>>

\* variant: stop() without "if not self.is_running: return"
ReturnsAtOnce_NoGuard == FALSE

\* "if not self.is_running: return"
ReturnsAtOnce == ~monitor_running

\* stop() from its start to "await self.telegram.send_message"
StopBegins(k) ==
    /\ stop_pcs[k] = "idle"
    /\ k = 0 => start_pc = "finally"
    /\ IF ReturnsAtOnce
       THEN /\ stop_pcs' = [stop_pcs EXCEPT ![k] = "done"]
            /\ UNCHANGED <<monitor_running, shutdown_event, final_sent>>
       ELSE /\ monitor_running' = FALSE
            /\ shutdown_event' = TRUE
            /\ final_sent' = final_sent + 1
            /\ stop_pcs' = [stop_pcs EXCEPT ![k] = "sending"]
    /\ UNCHANGED <<set_pending, start_pc, stats_pc, rescan_pc, signalled>>
    /\ UNCHANGED <<monitorVars, limiterVars, wsVars, restVars, callVars>>

\* stop(): send_message returns or raises; "await self.telegram.close()"
StopSent(k) ==
    /\ stop_pcs[k] = "sending"
    /\ stop_pcs' = [stop_pcs EXCEPT ![k] = "closing"]
    /\ UNCHANGED <<monitor_running, shutdown_event, set_pending, start_pc,
                   stats_pc, rescan_pc, final_sent, signalled>>
    /\ UNCHANGED <<monitorVars, limiterVars, wsVars, restVars, callVars>>

\* stop(): telegram.close() returns or raises, and stop() returns
StopClosed(k) ==
    /\ stop_pcs[k] = "closing"
    /\ stop_pcs' = [stop_pcs EXCEPT ![k] = "done"]
    /\ UNCHANGED <<monitor_running, shutdown_event, set_pending, start_pc,
                   stats_pc, rescan_pc, final_sent, signalled>>
    /\ UNCHANGED <<monitorVars, limiterVars, wsVars, restVars, callVars>>

\* start(): shutdown_event.wait() returns; ws_client.stop(), a sentinel
\* per worker, cancel() on every task that is not done, up to
\* "await asyncio.gather(...)".  Cancelling connect_all cancels the gather
\* it awaits, and with it the chunk tasks.
ShutdownSequence ==
    /\ start_pc = "waiting"
    /\ shutdown_event
    /\ is_running' = FALSE
    /\ stopped' = TRUE
    /\ verify_queue' = verify_queue \o [w \in Workers |-> None]
    /\ connect_all_pc' = Cancel(connect_all_pc)
    /\ chunks' = [c \in Chunks |->
                     IF connect_all_pc = "gather"
                     THEN [chunks[c] EXCEPT !.pc = Cancel(@)]
                     ELSE chunks[c]]
    /\ stats_pc' = Cancel(stats_pc)
    /\ rescan_pc' = Cancel(rescan_pc)
    /\ workers' = [w \in Workers |-> [workers[w] EXCEPT !.pc = Cancel(@)]]
    /\ start_pc' = "gather"
    /\ UNCHANGED <<monitor_running, shutdown_event, set_pending, stop_pcs,
                   final_sent, signalled>>
    /\ UNCHANGED <<RSI_PERIOD, clock, prices, timestamps, last_signal_time,
                   ticks_received, signals_found, klines_cache, rescan_wake,
                   aborted, errors_count, dropped, received>>
    /\ UNCHANGED <<limiterVars, restVars, callVars>>

\* _verify_worker: CancelledError arrives at the await the worker is in,
\* "except asyncio.CancelledError: break"
WorkerCancelled(w) ==
    /\ workers[w].pc = "cancelled"
    /\ workers' = [workers EXCEPT ![w].pc = "done"]
    /\ UNCHANGED <<RSI_PERIOD, clock, prices, timestamps, last_signal_time,
                   verify_queue, ticks_received, signals_found, klines_cache,
                   rescan_wake, aborted, errors_count, dropped>>
    /\ UNCHANGED <<limiterVars, wsVars, runVars, restVars, callVars>>

\* _connect_chunk: CancelledError arrives; the "finally" cancels the
\* keep-alive task
ChunkCancelled(c) ==
    /\ chunks[c].pc = "cancelled"
    /\ chunks' = [chunks EXCEPT ![c].pc = "done", ![c].keep_alive = "none"]
    /\ UNCHANGED <<is_running, connect_all_pc, stopped, received>>
    /\ UNCHANGED <<monitorVars, limiterVars, runVars, restVars, callVars>>

\* connect_all: its gather is over, CancelledError arrives,
\* "finally: self.is_running = False"
ConnectAllCancelled ==
    /\ connect_all_pc = "cancelled"
    /\ \A c \in Chunks : chunks[c].pc \in {"none", "done"}
    /\ connect_all_pc' = "done"
    /\ is_running' = FALSE
    /\ UNCHANGED <<chunks, stopped, received>>
    /\ UNCHANGED <<monitorVars, limiterVars, runVars, restVars, callVars>>

\* stats_loop: "except asyncio.CancelledError: break"
StatsCancelled ==
    /\ stats_pc = "cancelled"
    /\ stats_pc' = "done"
    /\ UNCHANGED <<monitor_running, shutdown_event, set_pending, start_pc,
                   stop_pcs, rescan_pc, final_sent, signalled>>
    /\ UNCHANGED <<monitorVars, limiterVars, wsVars, restVars, callVars>>

\* per_minute_rescan: "except asyncio.CancelledError: break"
RescanCancelled ==
    /\ rescan_pc = "cancelled"
    /\ rescan_pc' = "done"
    /\ UNCHANGED <<monitor_running, shutdown_event, set_pending, start_pc,
                   stop_pcs, stats_pc, final_sent, signalled>>
    /\ UNCHANGED <<monitorVars, limiterVars, wsVars, restVars, callVars>>

\* every task start() gathers is done
TasksDone ==
    /\ connect_all_pc = "done"
    /\ stats_pc = "done"
    /\ rescan_pc = "done"
    /\ \A w \in Workers : workers[w].pc = "done"

\* start(): gather returns, on to "finally: await self.stop()"
StartGatherReturns ==
    /\ start_pc = "gather"
    /\ TasksDone
    /\ start_pc' = "finally"
    /\ UNCHANGED <<monitor_running, shutdown_event, set_pending, stop_pcs,
                   stats_pc, rescan_pc, final_sent, signalled>>
    /\ UNCHANGED <<monitorVars, limiterVars, wsVars, restVars, callVars>>

\* start(): the stop() of its "finally" has returned, and start() returns
StartReturns ==
    /\ start_pc = "finally"
    /\ stop_pcs[0] = "done"
    /\ start_pc' = "done"
    /\ UNCHANGED <<monitor_running, shutdown_event, set_pending, stop_pcs,
                   stats_pc, rescan_pc, final_sent, signalled>>
    /\ UNCHANGED <<monitorVars, limiterVars, wsVars, restVars, callVars>>

\* the steps of start() and of the tasks it cancelled
StartRuns ==
    \/ ShutdownSequence
    \/ \E w \in Workers : WorkerCancelled(w)
    \/ \E c \in Chunks : ChunkCancelled(c)
    \/ ConnectAllCancelled
    \/ StatsCancelled
    \/ RescanCancelled
    \/ StartGatherReturns
    \/ StopBegins(0)
    \/ StartReturns

NextShutdown ==
    \/ signal_handler
    \/ EventSetCallback
    \/ StartRuns
    \/ \E k \in StopCalls \ {0} : StopBegins(k)
    \/ \E k \in StopCalls : StopSent(k)
    \/ \E k \in StopCalls : StopClosed(k)
    \/ Checking({ListOutcome(SeriesNeutral)})

SpecShutdown == InitLoops /\ [][NextShutdown]_vars

\* the event loop runs every callback and every task that is ready
SpecShutdownLive ==
    SpecShutdown /\ WF_vars(EventSetCallback) /\ WF_vars(StartRuns)

\* ---------------------------------------------------------------------
\* MexcClient._make_request: one call as client.get_klines makes it, with
\* the session open.  Every session.get ends: the session has a total
\* timeout.
\* ---------------------------------------------------------------------
\* how an attempt ends: status 200 with a dict or with something else, a
\* status other than 200 and 429, status 429, aiohttp.ClientError,
\* asyncio.TimeoutError, any other exception
HttpOutcomes == {"dict", "not_dict", "status", "rate_limit", "client_error",
                 "timeout", "exception"}

RECURSIVE TwoTo(_)
TwoTo(k) == IF k = 0 THEN 1 ELSE 2 * TwoTo(k - 1)

\* variant: retry_count <= self.max_retries
CanRetry_Inclusive(r) == r.retry_count <= r.max_retries

\* if retry_count < self.max_retries
CanRetry(r) == r.retry_count < r.max_retries

\* the argument of asyncio.sleep before the retry
wait_time(outcome, retry_count) ==
    CASE outcome = "rate_limit" -> TwoTo(retry_count + 2)
      [] outcome = "client_error" -> TwoTo(retry_count)
      [] outcome = "timeout" -> 1

\* the call returns v, and so does every call that awaits it
Return(r, v) == [r EXCEPT !.pc = "done", !.result = v]

\* the body of _make_request after session.get: RateLimitError is raised
\* inside the try and caught by "except Exception", which returns None
AfterGet(r, outcome) ==
    IF outcome = "dict" THEN Return(r, "dict")
    ELSE IF outcome \in {"rate_limit", "client_error", "timeout"}
            /\ CanRetry(r)
    THEN [r EXCEPT !.pc = "sleep",
                   !.waits = Append(@, wait_time(outcome, r.retry_count))]
    ELSE Return(r, "None")

\* _make_request(url, params=params) of a client built with max_retries
_make_request(max_retries) ==
    /\ request.pc \in {"idle", "done"}
    /\ request' = [NoRequest EXCEPT !.pc = "get",
                                    !.max_retries = max_retries,
                                    !.attempts = 1]
    /\ UNCHANGED <<monitorVars, limiterVars, wsVars, runVars, callVars>>

\* session.get returns or raises
Responds(outcome) ==
    /\ request.pc = "get"
    /\ request' = AfterGet(request, outcome)
    /\ UNCHANGED <<monitorVars, limiterVars, wsVars, runVars, callVars>>

\* asyncio.sleep(wait_time) ends:
\* return await self._make_request(url, method, params, retry_count + 1)
RetrySleepEnds ==
    /\ request.pc = "sleep"
    /\ request' = [request EXCEPT !.pc = "get", !.retry_count = @ + 1,
                                  !.attempts = @ + 1]
    /\ UNCHANGED <<monitorVars, limiterVars, wsVars, runVars, callVars>>

AttemptEnds == \E o \in HttpOutcomes : Responds(o)

NextRest ==
    \/ \E m \in 0..MaxRetries : _make_request(m)
    \/ AttemptEnds
    \/ RetrySleepEnds

SpecRest ==
    Init /\ [][NextRest]_vars /\ WF_vars(AttemptEnds) /\ WF_vars(RetrySleepEnds)

\* ---------------------------------------------------------------------
\* MexcWSClient.connect_all: the split of self.symbols into chunks and the
\* tasks created for them.  self.symbols is the cleaned list, of distinct
\* symbols as tools/update_symbols.py writes them; a symbol is an integer
\* here and CHUNK_SIZE is drawn from 1..MaxChunkSize.
\* ---------------------------------------------------------------------
SymbolIds == 1..MaxSymbols

Min(a, b) == IF a < b THEN a ELSE b

\* range(0, len(self.symbols), self.CHUNK_SIZE)
Starts(n, size) == {i \in 0..(n - 1) : i % size = 0}

\* variant: self.symbols[i:i + self.CHUNK_SIZE + 1]
Slice_OneMore(symbols, i, size) ==
    SubSeq(symbols, i + 1, Min(i + size + 1, Len(symbols)))

\* self.symbols[i:i + self.CHUNK_SIZE]
Slice(symbols, i, size) ==
    SubSeq(symbols, i + 1, Min(i + size, Len(symbols)))

\* chunks = [self.symbols[i:i + self.CHUNK_SIZE] for i in range(...)]
SplitChunks(symbols, size) ==
    [k \in 1..Cardinality(Starts(Len(symbols), size)) |->
        Slice(symbols, (k - 1) * size, size)]

\* tasks = [create_task(self._connect_chunk(chunk, idx + 1)) for ...]:
\* the arguments of each task
CreateTasks(chunk_list) ==
    [idx \in 1..Len(chunk_list) |->
        [symbols |-> chunk_list[idx], chunk_id |-> idx]]

\* lists of distinct symbols
SymbolLists ==
    UNION {{l \in [1..n -> SymbolIds] :
               \A i, j \in 1..n : l[i] = l[j] => i = j} : n \in 0..MaxSymbols}

InitChunks ==
    /\ InitMonitor /\ InitLimiter /\ InitWs /\ InitRun /\ InitRest
    /\ args \in {[symbols |-> l, CHUNK_SIZE |-> k] :
                    l \in SymbolLists, k \in 1..MaxChunkSize}
    /\ returned = <<>>

\* connect_all up to its gather: "if not self.symbols: return" creates no
\* task
ConnectAllStarts ==
    /\ returned = <<>>
    /\ returned' = <<IF args.symbols = <<>>
                     THEN <<>>
                     ELSE CreateTasks(SplitChunks(args.symbols,
                                                  args.CHUNK_SIZE))>>
    /\ UNCHANGED <<monitorVars, limiterVars, wsVars, runVars, restVars, args>>

NextChunks == ConnectAllStarts

SpecChunks == InitChunks /\ [][NextChunks]_vars

\* ---------------------------------------------------------------------
\* RSICalculator.calculate on its own: every series of up to MaxLen prices
\* out of 1..MaxPrice, every period in 1..MaxPeriod.
\* ---------------------------------------------------------------------
PriceSeries == UNION {[1..n -> 1..MaxPrice] : n \in 0..MaxLen}

InitRsi ==
    /\ InitMonitor /\ InitLimiter /\ InitWs /\ InitRun /\ InitRest
    /\ args \in {[prices |-> p, period |-> k] :
                    p \in PriceSeries, k \in 1..MaxPeriod}
    /\ returned = <<>>

\* RSICalculator.calculate(prices, period) returns
CalculateReturns ==
    /\ returned = <<>>
    /\ returned' = <<calculate(args.prices, args.period)>>
    /\ UNCHANGED <<monitorVars, limiterVars, wsVars, runVars, restVars, args>>

NextRsi == CalculateReturns

SpecRsi == InitRsi /\ [][NextRsi]_vars

\* ---------------------------------------------------------------------
\* Properties
\* ---------------------------------------------------------------------
\* positions of a worker inside send_signal
AlertPcs == {"fetch_5m", "fetch_5m_direct", "ticker", "send_photo"}
\* positions of a worker awaiting candles from the exchange
FetchPcs == {"fetch_1h", "fetch_15m", "fetch_5m", "fetch_5m_direct"}

\* the step enters send_signal for symbol s
EntersSendSignal(s) ==
    \E w \in Workers : /\ workers[w].pc \notin AlertPcs
                       /\ workers'[w].pc \in AlertPcs
                       /\ workers'[w].symbol = s

\* an RSI value strictly outside [RSI_OVERSOLD, RSI_OVERBOUGHT]
StrictlyExtreme(rsi) ==
    rsi[1] > RSI_OVERBOUGHT * rsi[2] \/ rsi[1] < RSI_OVERSOLD * rsi[2]

Rsi1hOf(w) == get_last_rsi(workers[w].prices_1h, RSI_PERIOD)
Rsi15mOf(w) == get_last_rsi(workers[w].prices_15m, RSI_PERIOD)

\* C1: whenever send_signal is entered for a symbol, the previous entry
\* for that symbol lies at least a full cooldown back, also when several
\* workers verify tasks of the symbol at the same time.
C1_OneAlertPerCooldown ==
    [][\A s \in Symbols :
          EntersSendSignal(s) => clock - last_signal_time[s] >= cooldown]_vars

\* C2: a task for symbol s enqueued at time t, when the 1h and 15m fetches
\* succeed with extreme RSI values, leads to an alert for s at or after t:
\* signals_found counts it and last_signal_time[s] is set to its time.
EnqueueTimes ==
    {StartTime + k * ClockStep : k \in 0..(VerifyElapsed \div ClockStep)}

QueuedAt(s, t) ==
    \E i \in DOMAIN verify_queue : /\ verify_queue[i].symbol = s
                                   /\ verify_queue[i].enqueued_at = t

C2_TriggerLeadsToAlert ==
    \A s \in Symbols, t \in EnqueueTimes :
        QueuedAt(s, t) ~> (signals_found > 0 /\ last_signal_time[s] >= t)

\* the alert of a task reaches telegram.send_photo
C2_Witness ==
    \E w \in Workers :
        /\ workers[w].pc = "send_photo"
        /\ last_signal_time[workers[w].symbol] >= StartTime
        /\ signals_found > 0

\* C3: a worker that awaits the 15m candles of a task, or is inside
\* send_signal for it, holds a 1h RSI that is not neutral: with a neutral
\* 1h RSI there is no 15m fetch and no alert.
C3_NeutralStopsTask ==
    \A w \in Workers :
        workers[w].pc \in {"fetch_15m"} \cup AlertPcs
            => StrictlyExtreme(Rsi1hOf(w))

\* a neutral 1h series was fetched, and the task ended there
C3_Witness ==
    \E s \in Symbols :
        /\ klines_cache[<<s, "1h">>].data = SeriesNeutral
        /\ klines_cache[<<s, "15m">>] = NoEntry
        /\ \A w \in Workers : workers[w] = IdleWorker
        /\ verify_queue = <<>>
        /\ signals_found = 0

\* C4: a worker inside send_signal holds a 1h RSI and a 15m RSI that are
\* both strictly above RSI_OVERBOUGHT or strictly below RSI_OVERSOLD.
C4_AlertNeedsBothExtreme ==
    \A w \in Workers :
        workers[w].pc \in AlertPcs
            => StrictlyExtreme(Rsi1hOf(w)) /\ StrictlyExtreme(Rsi15mOf(w))

\* an alert on a rising 1h series and a falling 15m series
C4_Witness ==
    \E w \in Workers :
        /\ workers[w].pc \in AlertPcs
        /\ workers[w].prices_1h = ClosePrices(SeriesUp)
        /\ workers[w].prices_15m = ClosePrices(SeriesDown)
        /\ RSI_PERIOD = DefaultPeriod

\* C5: a worker inside send_signal computed both RSI values from at least
\* RSI_PERIOD + 1 closing prices, so neither is the default 0.0.
C5_NoAlertOnDefaultRsi ==
    \A w \in Workers :
        workers[w].pc \in AlertPcs
            => /\ Len(workers[w].prices_1h) >= RSI_PERIOD + 1
               /\ Len(workers[w].prices_15m) >= RSI_PERIOD + 1

\* C6: the step in which a 1h or 15m fetch fails ends the task: the worker
\* is back at verify_queue.get(), nothing is alerted and last_signal_time
\* is as before.
C6_FailedFetchAbortsTask ==
    [][aborted' # aborted =>
          /\ last_signal_time' = last_signal_time
          /\ signals_found' = signals_found
          /\ \E w \in Workers : /\ workers[w].pc \in {"fetch_1h", "fetch_15m"}
                                /\ workers'[w] = IdleWorker
                                /\ workers'[w] # workers[w]]_vars

\* after a failed fetch for s, a task for s is enqueued again
C6_Witness ==
    \E s \in Symbols :
        /\ aborted[s].at > 0
        /\ last_signal_time[s] = 0
        /\ \E i \in DOMAIN verify_queue :
               /\ verify_queue[i].symbol = s
               /\ verify_queue[i].enqueued_at > aborted[s].at

\* C7: every task a step appends to verify_queue is for a symbol that has
\* never alerted or whose last alert is at least a cooldown old.
C7_EnqueueOutsideCooldown ==
    [][\A i \in (Len(verify_queue) + 1)..Len(verify_queue') :
          LET s == verify_queue'[i].symbol
          IN \/ last_signal_time[s] = 0
             \/ clock - last_signal_time[s] >= cooldown]_vars

\* a task enqueued for a symbol whose cooldown has elapsed
C7_Witness ==
    \E i \in DOMAIN verify_queue :
        LET s == verify_queue[i].symbol
        IN /\ last_signal_time[s] > 0
           /\ verify_queue[i].enqueued_at >= last_signal_time[s] + cooldown

\* C8: the number of queued tasks stays below a fixed capacity.
C8_QueueBounded == Len(verify_queue) < MaxQueue

\* C9: a worker awaits candles only after a RateLimiter permit was
\* granted.
C9_FetchAfterPermit ==
    \A w \in Workers : workers[w].pc \in FetchPcs => requests_made > 0

\* C10: consecutive grants of RateLimiter.wait are at least min_interval
\* apart, and N grants span at least (N - 1) * min_interval.
C10_GrantsSpaced ==
    /\ \A i \in 1..(Len(grants) - 1) :
           grants[i + 1] - grants[i] >= min_interval
    /\ \A i \in DOMAIN grants, j \in DOMAIN grants :
           i < j => grants[j] - grants[i] >= (j - i) * min_interval
    /\ requests_made = Len(grants)

\* three grants, the last one after a sleep, while another caller queues
C10_Witness ==
    /\ Len(grants) >= 3
    /\ \E c \in Callers : callers[c].pc = "blocked"
    /\ \E c \in Callers : callers[c].pc = "sleeping"

\* the interval a worker suspended in _get_klines_cached asked for
CachedFetchPcs == {"fetch_1h", "fetch_15m", "fetch_5m"}

IntervalOf(pc) ==
    IF pc = "fetch_1h" THEN "1h" ELSE IF pc = "fetch_15m" THEN "15m" ELSE "5m"

\* the step in which the fetch of worker w returns data, which is stored
\* under the time of w's call
FetchReturnsData(w) ==
    /\ workers[w].pc \in CachedFetchPcs
    /\ workers'[w] # workers[w]
    /\ LET key == <<workers[w].symbol, IntervalOf(workers[w].pc)>>
       IN /\ Len(klines_cache'[key].data) > 0
          /\ klines_cache'[key].ts = workers[w].now

\* C11: when a fetch for (symbol, interval) returns data, no other call for
\* the same key made less than KLINES_CACHE_TTL from the call it serves has
\* caused a fetch of its own.
C11_OneFetchWithinTtl ==
    [][\A w1 \in Workers, w2 \in Workers :
          (/\ w1 # w2
           /\ FetchReturnsData(w1)
           /\ workers[w2].pc = workers[w1].pc
           /\ workers[w2].symbol = workers[w1].symbol)
              => Abs(workers[w2].now - workers[w1].now)
                     >= KLINES_CACHE_TTL]_vars

\* the step in which a 1h or 15m fetch of the verification of symbol s
\* fails or returns nothing
FetchGivesNoData(s) == aborted'[s] # aborted[s] /\ aborted'[s].nodata

\* the step in which the cached 5m fetch of send_signal gives nothing
ChartFetchGivesNoData(w) ==
    workers[w].pc = "fetch_5m" /\ workers'[w].pc = "fetch_5m_direct"

\* C12: a step in which the fetch of _get_klines_cached fails or returns
\* nothing stores or replaces no cache entry, hands the caller no data (the
\* verification ends, send_signal asks for the candles directly) and lets
\* no exception out: errors_count, which verify_with_rsi and send_signal
\* raise on every exception they catch, is as before.
C12_FailedFetchLeavesCache ==
    [][((\E s \in Symbols : FetchGivesNoData(s))
            \/ (\E w \in Workers : ChartFetchGivesNoData(w)))
          => /\ klines_cache' = klines_cache
             /\ errors_count' = errors_count
             /\ signals_found' = signals_found
             /\ \E w \in Workers :
                    /\ workers[w].pc \in CachedFetchPcs
                    /\ workers'[w] # workers[w]
                    /\ workers'[w].pc \in {"get", "fetch_5m_direct"}]_vars

\* a fetch failed while the key held an entry, which is still there
C12_Witness ==
    \E s \in Symbols :
        /\ aborted[s].at > 0
        /\ aborted[s].nodata
        /\ Len(klines_cache[<<s, "1h">>].data) > 0
        /\ aborted[s].at - klines_cache[<<s, "1h">>].ts >= KLINES_CACHE_TTL

\* the tasks a step appends to verify_queue
Enqueued == (Len(verify_queue) + 1)..Len(verify_queue')

\* symbol s has a buffered entry older than the start of the window
HasEntryBeforeWindow(s) ==
    \E j \in DOMAIN timestamps'[s] : timestamps'[s][j] < clock - WINDOW

\* C13: the candidate filter, run by a tick or by the rescan, triggers only
\* for a symbol with at least 2 buffered entries of which one is older than
\* the start of the 15-minute window; and it raises nothing (errors_count
\* is as before in every step that appends a tick or a task).
C13_NoTriggerWithoutReference ==
    [][/\ \A i \in Enqueued :
             LET s == verify_queue'[i].symbol
             IN Len(prices'[s]) >= 2 /\ HasEntryBeforeWindow(s)
       /\ (prices' # prices \/ Enqueued # {})
             => errors_count' = errors_count]_vars

\* a 9% move between two ticks inside the window: nothing is enqueued
C13_Witness ==
    \E s \in Symbols :
        /\ prices[s] = <<100, 109>>
        /\ timestamps[s] = <<clock, clock>>
        /\ verify_queue = <<>>
        /\ \A w \in Workers : workers[w] = IdleWorker
        /\ signals_found = 0

\* the symbols whose buffers a step runs the candidate filter on: the
\* symbol of the tick, or every symbol when the rescan runs
Filtered ==
    {s \in Symbols : prices'[s] # prices[s] \/ rescan_wake' # rescan_wake}

\* reference price and latest price of s, as the filter reads them
Reference(s) == OldPrice(prices'[s], timestamps'[s], clock)
Latest(s) == prices'[s][Len(prices'[s])]

\* r > 0 and abs((p - r) / r * 100) >= PRICE_CHANGE_THRESHOLD, in integers
MovedByThreshold(p, r) ==
    r > 0 /\ Abs(p - r) * 100 >= PRICE_CHANGE_THRESHOLD * r

\* C14: a step that runs the filter on symbol s (outside its cooldown)
\* enqueues a task for s if and only if a reference price r was found,
\* r > 0 and abs((p - r) / r * 100) >= PRICE_CHANGE_THRESHOLD for the
\* latest price p; the task carries that percentage.
C14_TriggerIffThreshold ==
    [][\A s \in Filtered :
          LET hit == /\ Len(prices'[s]) >= 2
                     /\ Reference(s) # <<>>
                     /\ MovedByThreshold(Latest(s), Reference(s)[1])
                     /\ ~InCooldown(s, clock)
              new == {i \in Enqueued : verify_queue'[i].symbol = s}
          IN /\ new # {} <=> hit
             /\ \A i \in new :
                    LET c == verify_queue'[i].price_change
                    IN c[1] * Reference(s)[1]
                           = Abs(Latest(s) - Reference(s)[1]) * 100 * c[2]
       ]_vars

\* a move from 100 to 108 was enqueued with change 8
C14_Witness ==
    \E s \in Symbols, i \in DOMAIN verify_queue :
        /\ prices[s] = <<100, 108>>
        /\ verify_queue[i].symbol = s
        /\ verify_queue[i].price_change = RatInt(PRICE_CHANGE_THRESHOLD)

\* C15: after a step that appends a tick to the buffer of symbol s, no
\* entry of the buffer is older than the window and the entries are in
\* non-decreasing time order.
C15_BufferTrimmedByAge ==
    [][\A s \in Symbols :
          prices'[s] # prices[s] =>
              /\ \A i \in DOMAIN timestamps'[s] :
                     clock - timestamps'[s][i] <= WINDOW
              /\ \A i \in DOMAIN timestamps'[s], j \in DOMAIN timestamps'[s] :
                     i <= j => timestamps'[s][i] <= timestamps'[s][j]]_vars

\* C16: a step in which handle_ws_message drops a tick (empty symbol,
\* missing or non-numeric price, price <= 0) leaves the buffers,
\* ticks_received, the queue and errors_count as they were; and a step that
\* appends to a buffer or counts a tick appended a price > 0 under a
\* non-empty symbol and dropped nothing.
C16_InvalidTickDropped ==
    [][/\ dropped' # dropped =>
              UNCHANGED <<prices, timestamps, ticks_received, verify_queue,
                          errors_count>>
       /\ \A s \in Symbols :
              prices'[s] # prices[s] =>
                  s # "" /\ Latest(s) > 0 /\ dropped' = dropped
       /\ ticks_received' # ticks_received =>
              \E s \in Symbols : prices'[s] # prices[s]]_vars

\* one tick was appended and one was dropped
C16_Witness ==
    /\ dropped
    /\ ticks_received = 1
    /\ \E s \in Symbols : prices[s] = <<100>>
    /\ verify_queue = <<>>

\* the number of buffered entries of the symbols from position i on
RECURSIVE BufferedFrom(_, _)
BufferedFrom(buf, i) ==
    IF i > Len(SymbolList) THEN 0
    ELSE Len(buf[SymbolList[i]]) + BufferedFrom(buf, i + 1)

C18_StopEndsReceiveLoops ==
    [][(stopped /\ ~is_running /\ received' # received)
          => \E c \in Chunks : /\ chunks[c].pc = "receiving"
                               /\ chunks'[c].pc = "done"]_vars

\* C19: once stop() has been called, no chunk starts to open a connection.
C19_NoConnectAfterStop ==
    [][\A c \in Chunks :
          (chunks[c].pc # "connecting" /\ chunks'[c].pc = "connecting")
              => ~stopped]_vars

RECURSIVE Pow(_, _)
Pow(b, k) == IF k = 0 THEN 1 ELSE b * Pow(b, k - 1)

\* C20: the delay a chunk waits before a reconnect attempt lies between
\* RECONNECT_DELAY and MAX_RECONNECT_DELAY; before the attempt that follows
\* k finished sleeps it is RECONNECT_DELAY * 1.5^k, or the ceiling when that
\* is larger.
C20_BackoffWithinBounds ==
    \A c \in Chunks :
        chunks[c].pc = "sleeping" =>
            LET d == chunks[c].reconnect_delay
                k == chunks[c].sleeps
            IN /\ d[1] >= RECONNECT_DELAY * d[2]
               /\ d[1] <= MAX_RECONNECT_DELAY * d[2]
               /\ IF RECONNECT_DELAY * Pow(3, k)
                        <= MAX_RECONNECT_DELAY * Pow(2, k)
                  THEN d[1] * Pow(2, k) = RECONNECT_DELAY * Pow(3, k) * d[2]
                  ELSE d = RatInt(MAX_RECONNECT_DELAY)

\* a chunk waits the ceiling, another one waits 5 * 1.5 seconds
C20_Witness ==
    /\ \E c \in Chunks :
           /\ chunks[c].pc = "sleeping"
           /\ chunks[c].reconnect_delay = RatInt(MAX_RECONNECT_DELAY)
    /\ \E c \in Chunks :
           /\ chunks[c].pc = "sleeping"
           /\ chunks[c].reconnect_delay = <<15, 2>>

\* C21: a step that brings a chunk's reconnect delay back to
\* RECONNECT_DELAY from a larger value is the step in which the chunk's
\* connection finishes its subscriptions; a connection closed before that
\* leaves the grown delay in place.
C21_ResetOnlyAfterSubscriptions ==
    [][\A c \in Chunks :
          (/\ RatLess(RatInt(RECONNECT_DELAY), chunks[c].reconnect_delay)
           /\ chunks'[c].reconnect_delay = RatInt(RECONNECT_DELAY))
              => (chunks[c].pc = "subscribing"
                      /\ chunks'[c].pc = "receiving")]_vars

\* C22: when a keepalive ping of a chunk's connection was not answered
\* within PING_TIMEOUT, the connection ends, and the chunk goes on to wait
\* for its reconnect unless the client is no longer running.
C22_MissedPongReconnects ==
    \A c \in Chunks :
        (chunks[c].pong_missed /\ chunks[c].pc = "receiving")
            ~> (\/ chunks[c].pc = "sleeping"
                \/ chunks[c].pc = "done" /\ ~is_running)

\* a chunk waits for its reconnect after a missed pong while the client
\* is running
C22_Witness ==
    \E c \in Chunks :
        /\ chunks[c].pong_missed
        /\ chunks[c].pc = "sleeping"
        /\ is_running

ConnectionPcs == {"connecting", "subscribing", "receiving"}

\* C24: while stop() has not been called, a chunk whose connection attempt
\* fails or whose connection ends goes to its backoff sleep, never out of
\* its loop, and a chunk in its backoff sleep goes on to a new connection
\* attempt.
C24_ReconnectsUntilStopped ==
    /\ [][\A c \in Chunks :
             (/\ ~stopped'
              /\ chunks[c].pc \in ConnectionPcs
              /\ chunks'[c].pc \notin ConnectionPcs)
                 => chunks'[c].pc = "sleeping"]_vars
    /\ \A c \in Chunks :
           (chunks[c].pc = "sleeping" /\ ~stopped)
               ~> (chunks[c].pc = "connecting" \/ stopped)

\* a chunk attempts a connection again after a connection of its own had
\* ended and the backoff sleep is over, the client never stopped
C24_Witness ==
    /\ ~stopped
    /\ \E c \in Chunks :
           /\ chunks[c].pc = "connecting"
           /\ chunks[c].sleeps = 1
           /\ chunks[c].pong_missed

\* C25: when start() has finished after a shutdown signal was handled,
\* stop() has sent the final status notification.
C25_FinalNotificationAfterSignal ==
    (signalled /\ start_pc = "done") => final_sent >= 1

\* C26: cancel() reaches a worker only while it waits in verify_queue.get();
\* a worker that is verifying a task is left to finish it.
C26_WorkersFinishCurrentTask ==
    [][\A w \in Workers :
          (workers[w].pc # "cancelled" /\ workers'[w].pc = "cancelled")
              => workers[w].pc = "get"]_vars

\* C27: once shutdown_event is set, start() returns, and by then the
\* streaming task, the stats task, the rescan and every worker are done.
C27_StartTerminates ==
    shutdown_event ~> (start_pc = "done" /\ TasksDone)

\* start() has returned although a worker had taken the queued task and
\* was still waiting for its 1h candles: the queue holds the sentinels
\* only and nothing was cached
C27_Witness ==
    /\ start_pc = "done"
    /\ TasksDone
    /\ verify_queue = [w \in Workers |-> None]
    /\ \A s \in Symbols : klines_cache[<<s, "1h">>] = NoEntry

\* C28: stop() sends the final notification at most once however many
\* calls are made; a call that begins after another call has begun
\* returns at once and changes nothing; and when calls have returned the
\* monitor is stopped.
C28_StopIdempotent ==
    /\ [](final_sent <= 1)
    /\ [](\A k \in StopCalls : stop_pcs[k] = "done" => ~monitor_running)
    /\ [][\A k \in StopCalls :
             (/\ stop_pcs[k] = "idle"
              /\ stop_pcs'[k] # "idle"
              /\ \E j \in StopCalls : stop_pcs[j] # "idle")
                 => /\ stop_pcs'[k] = "done"
                    /\ UNCHANGED <<monitor_running, shutdown_event,
                                   final_sent>>]_vars

\* a call has returned while another call, which began before it, is
\* still sending the notification
C28_Witness ==
    /\ final_sent = 1
    /\ ~signalled
    /\ \E j, k \in StopCalls : /\ stop_pcs[j] = "sending"
                                /\ stop_pcs[k] = "done"

\* the step is a tick of symbol s whose move reaches the threshold
TriggeringTick(s) ==
    /\ ticks_received' = ticks_received + 1
    /\ prices'[s] # prices[s]
    /\ Evaluate(prices'[s], timestamps'[s], clock).triggered

\* the step puts a task for symbol s on the queue
Enqueues(s) ==
    /\ Len(verify_queue') = Len(verify_queue) + 1
    /\ verify_queue'[Len(verify_queue')].symbol = s

\* a worker takes a task of symbol s from the queue
Takes(s) ==
    /\ verify_queue # <<>>
    /\ verify_queue' = Tail(verify_queue)
    /\ Head(verify_queue).symbol = s

\* the worker that took the task goes on to verify it
Verifies(s) ==
    \E w \in Workers : /\ workers[w].pc = "get"
                       /\ workers'[w].pc # "get"
                       /\ workers'[w].symbol = s

\* C29 as stated: the step that records an alert for S leaves S
\* ineligible, and a triggering tick of S is enqueued, and a dequeued task
\* of S verified, exactly when S never alerted or more than a cooldown has
\* passed since its last alert.
C29_EligibleIffWindowExceeded ==
    [][\A s \in Symbols :
          /\ last_signal_time'[s] # last_signal_time[s]
                 => clock' - last_signal_time'[s] < cooldown
          /\ TriggeringTick(s)
                 => (Enqueues(s) <=>
                        \/ last_signal_time[s] = 0
                        \/ clock - last_signal_time[s] > cooldown)
          /\ Takes(s)
                 => (Verifies(s) <=>
                        \/ last_signal_time[s] = 0
                        \/ clock - last_signal_time[s] > cooldown)]_vars

\* C29, amended: the step that records an alert for S leaves S ineligible,
\* and a triggering tick of S is enqueued, and a dequeued task of S
\* verified, exactly when S never alerted or at least a cooldown has passed
\* since its last alert.
C29_EligibleIffWindowElapsed ==
    [][\A s \in Symbols :
          /\ last_signal_time'[s] # last_signal_time[s]
                 => /\ last_signal_time'[s] = clock
                    /\ clock' - last_signal_time'[s] < cooldown
          /\ TriggeringTick(s)
                 => (Enqueues(s) <=>
                        \/ last_signal_time[s] = 0
                        \/ clock - last_signal_time[s] >= cooldown)
          /\ Takes(s)
                 => (Verifies(s) <=>
                        \/ last_signal_time[s] = 0
                        \/ clock - last_signal_time[s] >= cooldown)]_vars

\* a tick of a symbol was enqueued exactly one cooldown after its alert
C29_Witness ==
    \E s \in Symbols :
        /\ last_signal_time[s] > 0
        /\ \E i \in DOMAIN verify_queue :
               /\ verify_queue[i].symbol = s
               /\ verify_queue[i].enqueued_at = last_signal_time[s] + cooldown
        /\ timestamps[s][Len(timestamps[s])] = last_signal_time[s] + cooldown

\* worker w returns from send_signal
LeavesSendSignal(w) ==
    /\ workers[w].pc \in AlertPcs
    /\ workers'[w].pc \notin AlertPcs

\* C30: an invocation of send_signal, which has recorded the cooldown of
\* its symbol on entry, returns only after it called telegram.send_photo:
\* a worker leaves send_signal from the send_photo call and from nowhere
\* else.
C30_AlertReachesNotifier ==
    [][\A w \in Workers :
          LeavesSendSignal(w) => workers[w].pc = "send_photo"]_vars

\* C31: while a worker is suspended in a verification that never ends,
\* every other worker that took a task gets back to verify_queue.get(),
\* and every queued task is taken.
C31_OthersNotBlocked ==
    /\ \A w \in Workers \ Stalled :
           (workers[w].pc # "get") ~> (workers[w].pc = "get")
    /\ (verify_queue # <<>>) ~> (verify_queue = <<>>)

\* a worker is still suspended in the fetch it began before another worker
\* took a task and raised the alert for it
C31_Witness ==
    \E w \in Stalled :
        /\ workers[w].pc = "fetch_1h"
        /\ \E s \in Symbols : workers[w].now < last_signal_time[s]
        /\ \E v \in Workers \ Stalled : workers[v].pc = "get"

\* C32: a fetch of candles makes one request attempt and no more.
C32_OneAttemptPerFetch == request.attempts <= 1

\* C37: a call of _make_request makes at most max_retries + 1 attempts,
\* has slept a positive time before each attempt but the first, never
\* raises, and ends returning a dict or None.
C37_RetriesBounded ==
    /\ [](/\ request.attempts <= request.max_retries + 1
          /\ request.pc \in {"get", "done"}
                 => Len(request.waits) = request.attempts - 1
          /\ \A i \in DOMAIN request.waits : request.waits[i] > 0
          /\ request.pc = "done" <=> request.result \in {"dict", "None"})
    /\ (request.pc = "get") ~> (request.pc = "done")

\* a call returned None after max_retries + 1 attempts that ended with
\* HTTP 429, a network error and a timeout
C37_Witness ==
    /\ request.pc = "done"
    /\ request.result = "None"
    /\ request.max_retries = DefaultRetries
    /\ request.attempts = request.max_retries + 1
    /\ \E i \in DOMAIN request.waits : request.waits[i] = TwoTo(i + 1)
    /\ \E i \in DOMAIN request.waits :
           i > 1 /\ request.waits[i] = TwoTo(i - 1)
    /\ \E i \in DOMAIN request.waits : i > 1 /\ request.waits[i] = 1

\* the tasks connect_all created
Tasks == returned[1]

\* the tasks whose chunk holds symbol x
TasksOf(x) ==
    {t \in DOMAIN Tasks :
        \E i \in DOMAIN Tasks[t].symbols : Tasks[t].symbols[i] = x}

RECURSIVE Joined(_, _)
\* the symbols of the first k tasks, in order
Joined(tasks, k) ==
    IF k = 0 THEN <<>> ELSE Joined(tasks, k - 1) \o tasks[k].symbols

StrictlyIncreasing(p) == \A i \in 2..Len(p) : p[i - 1] < p[i]
StrictlyDecreasing(p) == \A i \in 2..Len(p) : p[i - 1] > p[i]

\* the values calculate gives from index period on (Python counts the
\* indices from 0)
FromPeriodOn ==
    {returned[1][i] : i \in (args.period + 1)..Len(returned[1])}

\* C34: for a strictly increasing series longer than period, calculate
\* gives 100 at every index from period on, and for a strictly decreasing
\* one it gives 0 there; the result is as long as the series.
C34_MonotoneSeriesSaturate ==
    (returned # <<>> /\ Len(args.prices) > args.period) =>
        /\ Len(returned[1]) = Len(args.prices)
        /\ StrictlyIncreasing(args.prices) => FromPeriodOn = {RatInt(100)}
        /\ StrictlyDecreasing(args.prices) => FromPeriodOn = {RatInt(0)}

\* calculate returned for a rising series with more than one value past
\* the period
C34_Witness ==
    /\ returned # <<>>
    /\ StrictlyIncreasing(args.prices)
    /\ args.period > 1
    /\ Len(args.prices) > args.period + 1
    /\ returned[1][Len(args.prices)] = RatInt(100)

\* the time of the latest tick of s
LatestTick(s) == timestamps[s][Len(timestamps[s])]

\* the latest tick of s met the trigger while s was in cooldown, so
\* handle_ws_message did not enqueue it
SkippedByCooldown(s) ==
    /\ last_signal_time[s] > 0
    /\ LatestTick(s) >= last_signal_time[s]
    /\ LatestTick(s) - last_signal_time[s] < cooldown
    /\ Evaluate(prices[s], timestamps[s], LatestTick(s)).triggered

\* the rescan runs in this step
Rescans == rescan_wake' # rescan_wake

\* the step appends a task for s, stamped with the current time
AppendsTask(s) ==
    \E i \in (Len(verify_queue) + 1)..Len(verify_queue') :
        /\ verify_queue'[i].symbol = s
        /\ verify_queue'[i].enqueued_at = clock
        /\ verify_queue'[i].price_change =
               Evaluate(prices[s], timestamps[s], clock).change

\* C35: a rescan that runs when the cooldown of S has expired, the latest
\* tick of S was skipped because of the cooldown, and the move of S still
\* meets the trigger, puts a task for S on the queue; no tick is needed.
C35_RescanEnqueuesAfterCooldown ==
    [][\A s \in Symbols :
          (/\ Rescans
           /\ SkippedByCooldown(s)
           /\ clock - last_signal_time[s] >= cooldown
           /\ Evaluate(prices[s], timestamps[s], clock).triggered)
              => AppendsTask(s)]_vars

\* the first rescan after the cooldown expired has queued a symbol whose
\* latest tick had come during the cooldown
C35_Witness ==
    \E s \in Symbols :
        /\ SkippedByCooldown(s)
        /\ LatestTick(s) > last_signal_time[s]
        /\ clock = last_signal_time[s] + cooldown
        /\ rescan_wake = clock + RESCAN_INTERVAL
        /\ verify_queue # <<>>
        /\ verify_queue[Len(verify_queue)] =
               Item(s, Evaluate(prices[s], timestamps[s], clock).change,
                    clock)

\* every closing price of the series is a usable price
Usable(series) == \A i \in DOMAIN series : series[i] > 0

\* C36: a verification reaches send_signal only with closing prices that
\* are all usable, in both timeframes.
C36_NoAlertOnMalformedCandles ==
    \A w \in Workers :
        workers[w].pc \in AlertPcs
            => Usable(workers[w].prices_1h) /\ Usable(workers[w].prices_15m)

\* the number of ticks SpecAppend counts
AppendTicks == 2 * Len(SymbolList) + MaxTicks - 1

\* handle_ws_message runs in this step
TickHandled == ticks_received' # ticks_received

\* C38: handle_ws_message can run to its end in every state, whatever the
\* queue holds and wherever the workers are (below the number of ticks
\* and the queue length explored), and its step appends one buffer entry
\* and at most one task and leaves workers and cache alone.
C38_TickNeverBlocks ==
    /\ [](\A m \in ValidMessages :
              (ticks_received < AppendTicks /\ Len(verify_queue) < MaxQueue)
                  => ENABLED HandleTick(m.s, m.c, AppendTicks))
    /\ [][TickHandled =>
              /\ workers' = workers
              /\ klines_cache' = klines_cache
              /\ last_signal_time' = last_signal_time
              /\ Len(verify_queue') \in
                     {Len(verify_queue), Len(verify_queue) + 1}
              /\ \E s \in Symbols :
                     /\ Len(prices'[s]) = Len(prices[s]) + 1
                     /\ timestamps'[s][Len(timestamps'[s])] = clock]_vars

\* a tick was handled and its task queued, with no rescan so far, while a
\* worker was suspended in a fetch it had begun earlier
C38_Witness ==
    /\ rescan_wake = StartTime + RESCAN_INTERVAL
    /\ verify_queue # <<>>
    /\ verify_queue[Len(verify_queue)].enqueued_at = clock
    /\ \E s \in Symbols :
           /\ timestamps[s][Len(timestamps[s])] = clock
           /\ Len(timestamps[s]) > 2
    /\ \E w \in Workers :
           workers[w].pc = "fetch_1h" /\ workers[w].now < clock

\* a step in which _get_klines_cached stores an entry under key k
Stores(k) == klines_cache'[k] # klines_cache[k]

\* C39: an entry stored by _get_klines_cached carries the time at which
\* it is stored, so it is fresh (served from the cache) right after the
\* store, however long the fetch took
C39_EntryCarriesStoreTime ==
    [][\A k \in Symbols \X Intervals :
           Stores(k) => /\ klines_cache'[k].ts = clock'
                        /\ clock' - klines_cache'[k].ts < KLINES_CACHE_TTL]_vars

\* the buffered entry of s closest to the window start among those not
\* older than it, in the state after a step
FirstInWindow(s) == FirstAtOrAfter(timestamps'[s], clock' - WINDOW)

\* C40: the reference entry against which _maybe_enqueue_price_alert
\* compares the latest price is the buffered entry closest to the window
\* start that is not older than it: the change carried by a task that a
\* tick enqueues is the change from that entry to the latest price
C40_ReferenceInsideWindow ==
    [][(TickHandled /\ Len(verify_queue') > Len(verify_queue)) =>
          LET task == verify_queue'[Len(verify_queue')]
              pr == prices'[task.symbol]
          IN /\ FirstInWindow(task.symbol) > 0
             /\ task.price_change =
                    PriceChange(pr[Len(pr)],
                                pr[FirstInWindow(task.symbol)])]_vars

====
